---- MODULE Spec2Model ----
(***************************************************************************)
(* AutoTrade-System: the decision-and-execution control loop.              *)
(*                                                                         *)
(* The model follows app/core/engine.py (AutoTradingEngine), the scorer of *)
(* app/core/strategy.py, the order/quote outcomes of                       *)
(* app/services/kis_client.py and the scheduling loop of app/main.py.      *)
(*                                                                         *)
(* Units.  Prices, budgets and PnL are whole KRW.  Every percentage or     *)
(* ratio the code holds as a float (spread_pct, stop_loss_pct, the score   *)
(* weights times 0.75, ...) is held in hundredths: 1.8 % is 180, a score   *)
(* of 22.5 is 2250.  Comparisons are the code's comparisons, cross         *)
(* multiplied where the code divides.  Time is in seconds.                 *)
(*                                                                         *)
(* io is the record of what the current (or most recent) tick did to the   *)
(* engine's collaborators: quote fetches, signals inserted, orders handed  *)
(* to the gateway, notifier calls, risk warnings.  It is emptied when a    *)
(* tick starts.  The trades table of the store is kept whole.              *)
(***************************************************************************)
EXTENDS Integers, Sequences, FiniteSets, TLC

VARIABLES
    runtime,        \* EngineRuntime
    config,         \* the snapshot ConfigManager.load() returns
    env,            \* process environment variables the engine reads
    now,            \* time.time()
    pc,             \* where the scheduling loop / tick() stands
    status,         \* tick()'s local status.can_place_order
    quotes,         \* tick()'s local quotes
    idx,            \* position of the running for-loop in quotes
    trades,         \* the rows of the store's trades table, by id
    io,             \* collaborator calls of the current tick
    returned,       \* what direct calls of risk_check_detail(), evaluate() or the gateway returned
    kis,            \* the gateway instance in use: its cached token's _token_expire_at
    issued,         \* the token endpoint: expiry time of the token it issued last
    hb              \* the health server's thread inside heartbeat(), and the instants it could show

vars ==
    <<runtime, config, env, now, pc, status, quotes, idx, trades, io, returned, kis, issued, hb>>

----------------------------------------------------------------------------
(* Bounds of the model *)

\* number of scan cycles (ticks) of one run
MaxCycles == 3

\* KIS_SYMBOLS, the universe of one scan
Universe == <<"005930", "000660">>

\* prices a quote may carry (KRW)
Prices == {68700, 70000, 73000}

\* the non-price fields of a quote, in hundredths
StrongProfile ==
    [volume_ratio |-> 300, volatility_pct |-> 220, execution_strength |-> 12000,
     spread_pct |-> 50, trend_slope |-> 40]
WeakProfile ==
    [volume_ratio |-> 100, volatility_pct |-> 70, execution_strength |-> 9000,
     spread_pct |-> 150, trend_slope |-> -20]
Profiles == {StrongProfile, WeakProfile}

Quote(symbol, price, p) ==
    [symbol |-> symbol, price |-> price, volume_ratio |-> p.volume_ratio,
     volatility_pct |-> p.volatility_pct, execution_strength |-> p.execution_strength,
     spread_pct |-> p.spread_pct, trend_slope |-> p.trend_slope]

----------------------------------------------------------------------------
(* Configuration snapshots and environments *)

Stages ==
    [universe |-> [max_spread_pct |-> 120],
     pre_breakout |-> [volume_spike_ratio_min |-> 220, intraday_volatility_pct_min |-> 180],
     trigger |-> [breakout_zone_1_pct |-> 60, breakout_zone_2_pct |-> 120, breakout_zone_3_pct |-> 200],
     confirmation |-> [execution_strength_min |-> 10500, spread_pct_max |-> 90, trend_slope_min |-> 20],
     exit |-> [stop_loss_pct |-> 180, take_profit_pct |-> 420]]

Weights == [universe |-> 20, pre_breakout |-> 25, trigger |-> 30, confirmation |-> 25]

RiskLimits ==
    [max_orders_per_day |-> 3, max_daily_loss_krw |-> 12000, max_daily_loss_pct |-> 0,
     equity_base_krw |-> 0, max_positions |-> 2, max_buy_amount_per_trade_krw |-> 150000,
     cooldown_after_consecutive_losses |-> 1, cooldown_minutes |-> 2]

DryRunConfig ==
    [mode |-> "DRY-RUN", scan_interval_seconds |-> 60, risk_limits |-> RiskLimits,
     scoring_weights |-> Weights, stages |-> Stages]

LiveConfig == [DryRunConfig EXCEPT !.mode = "LIVE", !.risk_limits.max_orders_per_day = 2]

\* AUTOTRADE_EQUITY_BASE_KRW (<<>> when unset, else <<KRW>>), whether the three KIS
\* credentials are all set, KIS_MOCK_ORDER
Env(equity, creds, mock) ==
    [AUTOTRADE_EQUITY_BASE_KRW |-> equity, credentials |-> creds, KIS_MOCK_ORDER |-> mock]

\* the deployments of the engine: a configuration file and an environment
Deployments ==
    {<<DryRunConfig, Env(<<>>, TRUE, FALSE)>>,
     <<LiveConfig, Env(<<>>, TRUE, FALSE)>>,
     <<LiveConfig, Env(<<>>, FALSE, FALSE)>>}

----------------------------------------------------------------------------
(* EngineRuntime and the per-tick record of collaborator calls *)

EngineRuntime ==
    [enabled |-> FALSE, open_positions |-> <<>>, daily_trades |-> 0, daily_loss_krw |-> 0,
     consecutive_losses |-> 0, cooldown_until_epoch |-> 0, fatal_error |-> "None"]

\* raised: the text of the exception raised inside the try block, if one was
EmptyLog ==
    [fetches |-> 0, signals |-> <<>>, orders |-> <<>>, sent |-> <<>>, warnings |-> <<>>,
     raised |-> "None", token_requests |-> <<>>]

\* heartbeat() not running: at is the number of fields read so far, read
\* the dict as far as it is built, instants the values of its fields at the
\* instants between complete updates of the trading loop
Heartbeat == [at |-> 0, read |-> <<>>, instants |-> {}]

Min(a, b) == IF a <= b THEN a ELSE b
Max(a, b) == IF a >= b THEN a ELSE b
Abs(a) == IF a < 0 THEN -a ELSE a

----------------------------------------------------------------------------
(* app/core/strategy.py: StageStrategy.evaluate.  Scores in hundredths. *)

\* evaluate with the trigger stage as a third hard gate
evaluate_trigger_gates(cfg, q) ==
    LET stages == cfg.stages
        weights == cfg.scoring_weights
        u == stages.universe
        universe_pass == q.spread_pct <= u.max_spread_pct
        universe_score == IF universe_pass THEN weights.universe * 100 ELSE 0
        pb == stages.pre_breakout
        pb_pass == /\ q.volume_ratio >= pb.volume_spike_ratio_min
                   /\ q.volatility_pct >= pb.intraday_volatility_pct_min
        pb_score == IF pb_pass THEN weights.pre_breakout * 100 ELSE 0
        t == stages.trigger
        breakout == q.volatility_pct >= t.breakout_zone_1_pct
        trigger_score ==
            IF q.volatility_pct >= t.breakout_zone_3_pct THEN weights.trigger * 100
            ELSE IF q.volatility_pct >= t.breakout_zone_2_pct THEN weights.trigger * 75
            ELSE IF breakout THEN weights.trigger * 40
            ELSE 0
        trigger_reason ==
            IF q.volatility_pct >= t.breakout_zone_3_pct THEN "zone3"
            ELSE IF q.volatility_pct >= t.breakout_zone_2_pct THEN "zone2"
            ELSE IF breakout THEN "zone1"
            ELSE "none"
        c == stages.confirmation
        conf_pass == /\ q.execution_strength >= c.execution_strength_min
                     /\ q.spread_pct <= c.spread_pct_max
                     /\ q.trend_slope >= c.trend_slope_min
        conf_score == IF conf_pass THEN weights.confirmation * 100 ELSE 0
        total == universe_score + pb_score + trigger_score + conf_score
        passed == total >= 6500 /\ pb_pass /\ trigger_score > 0 /\ conf_pass
    IN  [passed |-> passed,
         total_score |-> total,
         stage_scores |-> [universe |-> universe_score, pre_breakout |-> pb_score,
                           trigger |-> trigger_score, confirmation |-> conf_score],
         reason |-> IF passed THEN "pass" ELSE "stage score or confirmation failed",
         stage_checks |->
            [universe |-> [passed |-> universe_pass, score |-> universe_score,
                           max_score |-> weights.universe * 100],
             pre_breakout |-> [passed |-> pb_pass, score |-> pb_score,
                               max_score |-> weights.pre_breakout * 100],
             trigger |-> [passed |-> trigger_score > 0, score |-> trigger_score,
                          max_score |-> weights.trigger * 100, reason |-> trigger_reason],
             confirmation |-> [passed |-> conf_pass, score |-> conf_score,
                               max_score |-> weights.confirmation * 100]]]

\* evaluate testing the trigger zones from the lowest up
evaluate_zone1_first(cfg, q) ==
    LET stages == cfg.stages
        weights == cfg.scoring_weights
        u == stages.universe
        universe_pass == q.spread_pct <= u.max_spread_pct
        universe_score == IF universe_pass THEN weights.universe * 100 ELSE 0
        pb == stages.pre_breakout
        pb_pass == /\ q.volume_ratio >= pb.volume_spike_ratio_min
                   /\ q.volatility_pct >= pb.intraday_volatility_pct_min
        pb_score == IF pb_pass THEN weights.pre_breakout * 100 ELSE 0
        t == stages.trigger
        breakout == q.volatility_pct >= t.breakout_zone_1_pct
        trigger_score ==
            IF breakout THEN weights.trigger * 40
            ELSE IF q.volatility_pct >= t.breakout_zone_2_pct THEN weights.trigger * 75
            ELSE IF q.volatility_pct >= t.breakout_zone_3_pct THEN weights.trigger * 100
            ELSE 0
        trigger_reason ==
            IF q.volatility_pct >= t.breakout_zone_3_pct THEN "zone3"
            ELSE IF q.volatility_pct >= t.breakout_zone_2_pct THEN "zone2"
            ELSE IF breakout THEN "zone1"
            ELSE "none"
        c == stages.confirmation
        conf_pass == /\ q.execution_strength >= c.execution_strength_min
                     /\ q.spread_pct <= c.spread_pct_max
                     /\ q.trend_slope >= c.trend_slope_min
        conf_score == IF conf_pass THEN weights.confirmation * 100 ELSE 0
        total == universe_score + pb_score + trigger_score + conf_score
        passed == total >= 6500 /\ pb_pass /\ conf_pass
    IN  [passed |-> passed,
         total_score |-> total,
         stage_scores |-> [universe |-> universe_score, pre_breakout |-> pb_score,
                           trigger |-> trigger_score, confirmation |-> conf_score],
         reason |-> IF passed THEN "pass" ELSE "stage score or confirmation failed",
         stage_checks |->
            [universe |-> [passed |-> universe_pass, score |-> universe_score,
                           max_score |-> weights.universe * 100],
             pre_breakout |-> [passed |-> pb_pass, score |-> pb_score,
                               max_score |-> weights.pre_breakout * 100],
             trigger |-> [passed |-> trigger_score > 0, score |-> trigger_score,
                          max_score |-> weights.trigger * 100, reason |-> trigger_reason],
             confirmation |-> [passed |-> conf_pass, score |-> conf_score,
                               max_score |-> weights.confirmation * 100]]]

evaluate(cfg, q) ==
    LET stages == cfg.stages
        weights == cfg.scoring_weights
        u == stages.universe
        universe_pass == q.spread_pct <= u.max_spread_pct
        universe_score == IF universe_pass THEN weights.universe * 100 ELSE 0
        pb == stages.pre_breakout
        pb_pass == /\ q.volume_ratio >= pb.volume_spike_ratio_min
                   /\ q.volatility_pct >= pb.intraday_volatility_pct_min
        pb_score == IF pb_pass THEN weights.pre_breakout * 100 ELSE 0
        t == stages.trigger
        breakout == q.volatility_pct >= t.breakout_zone_1_pct
        trigger_score ==
            IF q.volatility_pct >= t.breakout_zone_3_pct THEN weights.trigger * 100
            ELSE IF q.volatility_pct >= t.breakout_zone_2_pct THEN weights.trigger * 75
            ELSE IF breakout THEN weights.trigger * 40
            ELSE 0
        trigger_reason ==
            IF q.volatility_pct >= t.breakout_zone_3_pct THEN "zone3"
            ELSE IF q.volatility_pct >= t.breakout_zone_2_pct THEN "zone2"
            ELSE IF breakout THEN "zone1"
            ELSE "none"
        c == stages.confirmation
        conf_pass == /\ q.execution_strength >= c.execution_strength_min
                     /\ q.spread_pct <= c.spread_pct_max
                     /\ q.trend_slope >= c.trend_slope_min
        conf_score == IF conf_pass THEN weights.confirmation * 100 ELSE 0
        total == universe_score + pb_score + trigger_score + conf_score
        passed == total >= 6500 /\ pb_pass /\ conf_pass
    IN  [passed |-> passed,
         total_score |-> total,
         stage_scores |-> [universe |-> universe_score, pre_breakout |-> pb_score,
                           trigger |-> trigger_score, confirmation |-> conf_score],
         reason |-> IF passed THEN "pass" ELSE "stage score or confirmation failed",
         stage_checks |->
            [universe |-> [passed |-> universe_pass, score |-> universe_score,
                           max_score |-> weights.universe * 100],
             pre_breakout |-> [passed |-> pb_pass, score |-> pb_score,
                               max_score |-> weights.pre_breakout * 100],
             trigger |-> [passed |-> trigger_score > 0, score |-> trigger_score,
                          max_score |-> weights.trigger * 100, reason |-> trigger_reason],
             confirmation |-> [passed |-> conf_pass, score |-> conf_score,
                               max_score |-> weights.confirmation * 100]]]

----------------------------------------------------------------------------
(* app/core/engine.py: AutoTradingEngine.risk_check_detail *)

\* dict.get(key, default)
Get(d, key, default) == IF key \in DOMAIN d THEN d[key] ELSE default

\* The reason text is kept as its kind and the numbers formatted into it.
Reason(kind, detail) == [kind |-> kind, detail |-> detail]

\* risk_check_detail with the absolute loss cap tested before the order count
risk_check_loss_first(cfg, e, rt, t) ==
    LET risk == cfg.risk_limits
        max_orders_per_day == Get(risk, "max_orders_per_day", Get(risk, "max_daily_trades", 0))
        max_daily_loss_krw == Get(risk, "max_daily_loss_krw", 0)
    IN  IF max_daily_loss_krw > 0 /\ rt.daily_loss_krw <= -max_daily_loss_krw
        THEN [ok |-> FALSE, reason |-> Reason("loss_krw", <<rt.daily_loss_krw>>)]
        ELSE IF max_orders_per_day > 0 /\ rt.daily_trades >= max_orders_per_day
        THEN [ok |-> FALSE, reason |-> Reason("count", <<rt.daily_trades, max_orders_per_day>>)]
        ELSE IF rt.cooldown_until_epoch > t
        THEN [ok |-> FALSE, reason |-> Reason("cooldown", <<rt.cooldown_until_epoch - t>>)]
        ELSE [ok |-> TRUE, reason |-> Reason("ok", <<>>)]

risk_check_detail(cfg, e, rt, t) ==
    LET risk == cfg.risk_limits
        max_orders_per_day == Get(risk, "max_orders_per_day", Get(risk, "max_daily_trades", 0))
        max_daily_loss_krw == Get(risk, "max_daily_loss_krw", 0)
        max_daily_loss_pct == Get(risk, "max_daily_loss_pct", 0)
        equity == IF e.AUTOTRADE_EQUITY_BASE_KRW # <<>>
                  THEN e.AUTOTRADE_EQUITY_BASE_KRW[1]
                  ELSE Get(risk, "equity_base_krw", 0)
    IN  IF max_orders_per_day > 0 /\ rt.daily_trades >= max_orders_per_day
        THEN [ok |-> FALSE, reason |-> Reason("count", <<rt.daily_trades, max_orders_per_day>>)]
        ELSE IF max_daily_loss_krw > 0 /\ rt.daily_loss_krw <= -max_daily_loss_krw
        THEN [ok |-> FALSE, reason |-> Reason("loss_krw", <<rt.daily_loss_krw>>)]
        ELSE IF /\ max_daily_loss_pct > 0
                /\ equity > 0
                \* loss_pct = abs(daily_loss_krw) / equity * 100 >= max_daily_loss_pct
                /\ Abs(rt.daily_loss_krw) * 10000 >= max_daily_loss_pct * equity
        THEN [ok |-> FALSE,
              reason |-> Reason("loss_pct", <<(Abs(rt.daily_loss_krw) * 10000) \div equity,
                                              max_daily_loss_pct>>)]
        ELSE IF rt.cooldown_until_epoch > t
        THEN [ok |-> FALSE, reason |-> Reason("cooldown", <<rt.cooldown_until_epoch - t>>)]
        ELSE [ok |-> TRUE, reason |-> Reason("ok", <<>>)]

----------------------------------------------------------------------------
(* app/services/kis_client.py: the outcome of one gateway call.            *)
(* inp.market is get_market_status().can_place_order as the gateway reads  *)
(* it, inp.net whether the network exchange (token, hash, dispatch)        *)
(* succeeds within the retry budget.                                       *)

dry_run(cfg) == Get(cfg, "mode", "DRY-RUN") = "DRY-RUN"

Returned(st) == [raised |-> FALSE, status |-> st, error |-> "None"]
Raised(err) == [raised |-> TRUE, status |-> "RAISED", error |-> err]

place_order(cfg, e, inp) ==
    IF dry_run(cfg) THEN Returned("SIMULATED")
    ELSE IF ~inp.market THEN Returned("BLOCKED")
    ELSE IF ~e.credentials THEN Raised("KISError: missing required LIVE env vars")
    ELSE IF e.KIS_MOCK_ORDER THEN Returned("FILLED")
    ELSE IF ~inp.net THEN Raised("KISError: KIS request failed")
    ELSE Returned("FILLED")

\* KISClient.__init__: no token cached
KISClient == [token_expire_at |-> <<>>]

\* stop=stop_after_attempt(3)
RetryAttempts == 3

\* expires_in of the token endpoint's answers, in seconds: one below the
\* floor of max(60, expires_in - 60), one above it
TokenLifetimes == {30, 180}

\* an answer of the token endpoint: a failure, or a token and its expires_in
TokenAnswers == {<<"failed", 0>>} \cup {<<"ok", expires_in>> : expires_in \in TokenLifetimes}

\* _get_access_token reusing a cached token whatever its expiry time
_get_access_token_never_expires(client, t, answer) ==
    IF client.token_expire_at # <<>>
    THEN [kis |-> client, requests |-> <<>>, raised |-> FALSE, error |-> "None"]
    ELSE IF answer[1] = "failed"
    THEN [kis |-> client, requests |-> <<[at |-> t, ok |-> FALSE, expires_in |-> 0]>>,
          raised |-> TRUE, error |-> "KISError"]
    ELSE IF answer[1] = "malformed"
    THEN [kis |-> client, requests |-> <<[at |-> t, ok |-> FALSE, expires_in |-> 0]>>,
          raised |-> TRUE, error |-> "ValueError"]
    ELSE [kis |-> [client EXCEPT !.token_expire_at = <<t + Max(60, answer[2] - 60)>>],
          requests |-> <<[at |-> t, ok |-> TRUE, expires_in |-> answer[2]]>>,
          raised |-> FALSE, error |-> "None"]

\* _get_access_token at time t: the client after the call, the requests sent
\* to the token endpoint (when, whether a token came back, its expires_in),
\* whether it raised and what: KISError when the request fails or the answer
\* is not a token, ValueError from int() when the answer's expires_in is not
\* a number ("malformed": _token_expire_at is then left as it was)
_get_access_token(client, t, answer) ==
    IF client.token_expire_at # <<>> /\ t < client.token_expire_at[1]
    THEN [kis |-> client, requests |-> <<>>, raised |-> FALSE, error |-> "None"]
    ELSE IF answer[1] = "failed"
    THEN [kis |-> client, requests |-> <<[at |-> t, ok |-> FALSE, expires_in |-> 0]>>,
          raised |-> TRUE, error |-> "KISError"]
    ELSE IF answer[1] = "malformed"
    THEN [kis |-> client, requests |-> <<[at |-> t, ok |-> FALSE, expires_in |-> 0]>>,
          raised |-> TRUE, error |-> "ValueError"]
    ELSE [kis |-> [client EXCEPT !.token_expire_at = <<t + Max(60, answer[2] - 60)>>],
          requests |-> <<[at |-> t, ok |-> TRUE, expires_in |-> answer[2]]>>,
          raised |-> FALSE, error |-> "None"]

\* the retry decorator around a LIVE call that needs a token: up to
\* RetryAttempts attempts, each asking _get_access_token
RECURSIVE retry(_, _, _, _)
retry(client, t, answers, attempt) ==
    LET got == _get_access_token(client, t, answers[attempt])
    IN  IF ~got.raised \/ attempt >= RetryAttempts THEN got
        ELSE LET next == retry(got.kis, t, answers, attempt + 1)
             IN  [next EXCEPT !.requests = got.requests \o @]

\* the token requests of fetch_universe_quotes on a new client: none in
\* DRY-RUN or when _validate_live_env raises, else those of the first
\* _fetch_live_price (later symbols and orders of the tick find the token cached)
fetch_token(cfg, e, inp, t, expires_in) ==
    IF dry_run(cfg) \/ ~e.credentials
    THEN [kis |-> KISClient, requests |-> <<>>, raised |-> FALSE, error |-> "None"]
    ELSE retry(KISClient, t,
               [i \in 1..RetryAttempts |-> IF inp.net THEN <<"ok", expires_in>> ELSE <<"failed", 0>>],
               1)

fetch_universe_quotes(cfg, e, inp) ==
    IF dry_run(cfg) THEN Returned("QUOTES")
    ELSE IF ~e.credentials THEN Raised("KISError: missing required LIVE env vars")
    ELSE IF ~inp.net THEN Raised("KISError: KIS token request failed")
    ELSE Returned("QUOTES")

----------------------------------------------------------------------------
(* app/services/kis_client.py, attempt by attempt.  A call of place_order   *)
(* or fetch_universe_quotes runs under the retry decorator; each attempt    *)
(* gets the network's answers of that attempt, ans = [token, order]:        *)
(* ans.token answers a token request, ans.order the hashkey and order-cash  *)
(* requests.  prices[i] answers the price request of the i-th symbol.       *)
(* An attempt yields the client, the requests it sent, the exception type   *)
(* it raised ("None" when it returned), the status and, for a filled order, *)
(* the broker's fields of the returned dict, the source of each quote.      *)

\* the token endpoint in one attempt: a token, a failure, a token whose
\* expires_in is not a number
TokenReplies == {<<"ok", 180>>, <<"failed", 0>>, <<"malformed", 0>>}

\* the hashkey and order-cash exchange of one attempt: the hashkey request
\* fails; the order request raises before it reaches the broker, raises
\* (read timeout) after the broker accepted the order, answers status != 200,
\* answers 200 with rt_cd != "0", answers 200 with rt_cd = "0"
OrderReplies ==
    {"hash_failed", "no_answer", "lost_answer", "http_error", "rejected", "accepted"}

\* the price request of one symbol: a price, status != 200, no stck_prpr in
\* the output, the request raises
PriceReplies == {"price", "http_error", "missing", "no_answer"}

Attempt(client, network, error, st, fields, sources) ==
    [kis |-> client, network |-> network, error |-> error, status |-> st,
     fields |-> fields, quotes |-> sources]

TokenCalls(tok) == [k \in DOMAIN tok.requests |-> "token"]

\* place_order calling _validate_live_env before it reads the market status
place_order_attempt_validates_first(client, dry, e, market, side, t, ans) ==
    IF dry THEN Attempt(client, <<>>, "None", "SIMULATED", {}, <<>>)
    ELSE IF ~e.credentials THEN Attempt(client, <<>>, "KISError", "RAISED", {}, <<>>)
    ELSE IF ~market THEN Attempt(client, <<>>, "None", "BLOCKED", {"reason"}, <<>>)
    ELSE IF e.KIS_MOCK_ORDER
    THEN Attempt(client, <<>>, "None", "FILLED", {"rt_cd", "msg1"}, <<>>)
    ELSE LET tok == _get_access_token(client, t, ans.token)
         IN  IF tok.raised
             THEN Attempt(tok.kis, TokenCalls(tok), tok.error, "RAISED", {}, <<>>)
             ELSE IF ans.order = "hash_failed"
             THEN Attempt(tok.kis, TokenCalls(tok) \o <<"hash">>, "KISError", "RAISED", {}, <<>>)
             ELSE IF side \notin {"BUY", "SELL"}
             THEN Attempt(tok.kis, TokenCalls(tok) \o <<"hash">>, "KISError", "RAISED", {}, <<>>)
             ELSE IF ans.order # "accepted"
             THEN Attempt(tok.kis, TokenCalls(tok) \o <<"hash", "order">>, "KISError", "RAISED",
                          {}, <<>>)
             ELSE Attempt(tok.kis, TokenCalls(tok) \o <<"hash", "order">>, "None", "FILLED",
                          {"rt_cd", "msg1", "raw"}, <<>>)

\* place_order reading the market status before self.dry_run
place_order_attempt_market_first(client, dry, e, market, side, t, ans) ==
    IF ~market THEN Attempt(client, <<>>, "None", "BLOCKED", {"reason"}, <<>>)
    ELSE IF dry THEN Attempt(client, <<>>, "None", "SIMULATED", {}, <<>>)
    ELSE IF ~e.credentials THEN Attempt(client, <<>>, "KISError", "RAISED", {}, <<>>)
    ELSE IF e.KIS_MOCK_ORDER
    THEN Attempt(client, <<>>, "None", "FILLED", {"rt_cd", "msg1"}, <<>>)
    ELSE LET tok == _get_access_token(client, t, ans.token)
         IN  IF tok.raised
             THEN Attempt(tok.kis, TokenCalls(tok), tok.error, "RAISED", {}, <<>>)
             ELSE IF ans.order = "hash_failed"
             THEN Attempt(tok.kis, TokenCalls(tok) \o <<"hash">>, "KISError", "RAISED", {}, <<>>)
             ELSE IF side \notin {"BUY", "SELL"}
             THEN Attempt(tok.kis, TokenCalls(tok) \o <<"hash">>, "KISError", "RAISED", {}, <<>>)
             ELSE IF ans.order # "accepted"
             THEN Attempt(tok.kis, TokenCalls(tok) \o <<"hash", "order">>, "KISError", "RAISED",
                          {}, <<>>)
             ELSE Attempt(tok.kis, TokenCalls(tok) \o <<"hash", "order">>, "None", "FILLED",
                          {"rt_cd", "msg1", "raw"}, <<>>)

\* place_order fetching the token before it reads KIS_MOCK_ORDER
place_order_attempt_token_first(client, dry, e, market, side, t, ans) ==
    IF dry THEN Attempt(client, <<>>, "None", "SIMULATED", {}, <<>>)
    ELSE IF ~market THEN Attempt(client, <<>>, "None", "BLOCKED", {"reason"}, <<>>)
    ELSE IF ~e.credentials THEN Attempt(client, <<>>, "KISError", "RAISED", {}, <<>>)
    ELSE IF e.KIS_MOCK_ORDER
    THEN LET tok == _get_access_token(client, t, ans.token)
         IN  IF tok.raised
             THEN Attempt(tok.kis, TokenCalls(tok), tok.error, "RAISED", {}, <<>>)
             ELSE Attempt(tok.kis, TokenCalls(tok), "None", "FILLED", {"rt_cd", "msg1"}, <<>>)
    ELSE LET tok == _get_access_token(client, t, ans.token)
         IN  IF tok.raised
             THEN Attempt(tok.kis, TokenCalls(tok), tok.error, "RAISED", {}, <<>>)
             ELSE IF ans.order = "hash_failed"
             THEN Attempt(tok.kis, TokenCalls(tok) \o <<"hash">>, "KISError", "RAISED", {}, <<>>)
             ELSE IF side \notin {"BUY", "SELL"}
             THEN Attempt(tok.kis, TokenCalls(tok) \o <<"hash">>, "KISError", "RAISED", {}, <<>>)
             ELSE IF ans.order # "accepted"
             THEN Attempt(tok.kis, TokenCalls(tok) \o <<"hash", "order">>, "KISError", "RAISED",
                          {}, <<>>)
             ELSE Attempt(tok.kis, TokenCalls(tok) \o <<"hash", "order">>, "None", "FILLED",
                          {"rt_cd", "msg1", "raw"}, <<>>)

\* one run of the body of place_order: the order of its checks, and in LIVE
\* the token, _get_hashkey, _tr_id (KISError for a side other than BUY and
\* SELL) and the order-cash request
place_order_attempt(client, dry, e, market, side, t, ans) ==
    IF dry THEN Attempt(client, <<>>, "None", "SIMULATED", {}, <<>>)
    ELSE IF ~market THEN Attempt(client, <<>>, "None", "BLOCKED", {"reason"}, <<>>)
    ELSE IF ~e.credentials THEN Attempt(client, <<>>, "KISError", "RAISED", {}, <<>>)
    ELSE IF e.KIS_MOCK_ORDER
    THEN Attempt(client, <<>>, "None", "FILLED", {"rt_cd", "msg1"}, <<>>)
    ELSE LET tok == _get_access_token(client, t, ans.token)
         IN  IF tok.raised
             THEN Attempt(tok.kis, TokenCalls(tok), tok.error, "RAISED", {}, <<>>)
             ELSE IF ans.order = "hash_failed"
             THEN Attempt(tok.kis, TokenCalls(tok) \o <<"hash">>, "KISError", "RAISED", {}, <<>>)
             ELSE IF side \notin {"BUY", "SELL"}
             THEN Attempt(tok.kis, TokenCalls(tok) \o <<"hash">>, "KISError", "RAISED", {}, <<>>)
             ELSE IF ans.order # "accepted"
             THEN Attempt(tok.kis, TokenCalls(tok) \o <<"hash", "order">>, "KISError", "RAISED",
                          {}, <<>>)
             ELSE Attempt(tok.kis, TokenCalls(tok) \o <<"hash", "order">>, "None", "FILLED",
                          {"rt_cd", "msg1", "raw"}, <<>>)

\* one run of the body of fetch_universe_quotes over the symbols of Universe:
\* _fetch_live_price checks the credentials and gets the token before its
\* try block, for every symbol; the first symbol's token serves the others
fetch_universe_quotes_attempt(client, dry, e, t, ans, prices) ==
    IF dry
    THEN Attempt(client, <<>>, "None", "QUOTES", {}, [i \in DOMAIN Universe |-> "simulated"])
    ELSE IF ~e.credentials THEN Attempt(client, <<>>, "KISError", "RAISED", {}, <<>>)
    ELSE LET tok == _get_access_token(client, t, ans.token)
         IN  IF tok.raised
             THEN Attempt(tok.kis, TokenCalls(tok), tok.error, "RAISED", {}, <<>>)
             ELSE Attempt(tok.kis, TokenCalls(tok) \o [i \in DOMAIN Universe |-> "price"],
                          "None", "QUOTES", {},
                          [i \in DOMAIN Universe |->
                              IF prices[i] = "price" THEN "live" ELSE "synthetic"])

\* the attempt of a call: call.op names the method
attempt(call, client, ans) ==
    IF call.op = "place_order"
    THEN place_order_attempt(client, call.dry_run, call.env, call.market, call.side, call.at,
                             ans)
    ELSE fetch_universe_quotes_attempt(client, call.dry_run, call.env, call.at, ans, call.prices)

\* the requests of a sequence of attempts, in the order sent
RECURSIVE Requests(_)
Requests(tried) ==
    IF tried = <<>> THEN <<>>
    ELSE Requests(SubSeq(tried, 1, Len(tried) - 1)) \o tried[Len(tried)].network

\* the decorator retrying on every exception, not on KISError only
RECURSIVE retrying_any_exception(_, _, _, _, _)
retrying_any_exception(call, client, answers, n, tried) ==
    LET a == attempt(call, client, answers[n])
        all == Append(tried, [network |-> a.network, error |-> a.error])
        end == [a EXCEPT !.network = Requests(all)] @@ [attempts |-> n, tried |-> all]
    IN  IF ~call.tenacity THEN end
        ELSE IF a.error = "None" THEN end
        ELSE IF n >= RetryAttempts THEN [end EXCEPT !.error = "RetryError"]
        ELSE retrying_any_exception(call, a.kis, answers, n + 1, all)

\* the retry decorator, from attempt n on, after the attempts tried (the
\* requests each sent, what it raised): with tenacity installed, a raised
\* KISError leads to the next attempt until stop_after_attempt(3) ends the
\* call with tenacity's RetryError (reraise is not set); any other exception
\* and any returned value end the call.  Without tenacity the decorator of
\* the except branch of the import returns the function unchanged.
RECURSIVE retrying(_, _, _, _, _)
retrying(call, client, answers, n, tried) ==
    LET a == attempt(call, client, answers[n])
        all == Append(tried, [network |-> a.network, error |-> a.error])
        end == [a EXCEPT !.network = Requests(all)] @@ [attempts |-> n, tried |-> all]
    IN  IF ~call.tenacity THEN end
        ELSE IF a.error # "KISError" THEN end
        ELSE IF n >= RetryAttempts THEN [end EXCEPT !.error = "RetryError"]
        ELSE retrying(call, a.kis, answers, n + 1, all)

----------------------------------------------------------------------------
(* app/core/engine.py: the engine's operations on its state.               *)
(* An operation works on s = [runtime, io, trades, err]; err is the text   *)
(* of the exception it ends with, "None" when it returns.  inp.fault names *)
(* the store call that fails in this step ("none" when none does).         *)

Ok == {"SIMULATED", "FILLED"}

Order(symbol, qty, side, price, result) ==
    [symbol |-> symbol, qty |-> qty, side |-> side, price |-> price, status |-> result.status]

Remove(d, key) == [k \in DOMAIN d \ {key} |-> d[k]]

\* app/core/database.py: Database.open_trade; the new row's id is its index
open_trade(rows, symbol, qty, entry_price) ==
    Append(rows, [symbol |-> symbol, qty |-> qty, entry_price |-> entry_price,
                  exit_price |-> 0, pnl |-> 0, fees |-> 0, status |-> "OPEN"])

\* app/core/database.py: Database.close_trade
close_trade(rows, trade_id, exit_price, fees) ==
    IF trade_id \notin DOMAIN rows THEN rows
    ELSE LET row == rows[trade_id]
         IN  [rows EXCEPT ![trade_id] =
                [row EXCEPT !.exit_price = exit_price,
                            !.pnl = (exit_price - row.entry_price) * row.qty - fees,
                            !.fees = fees,
                            !.status = "CLOSED"]]

\* _try_entry without its first check
_try_entry_no_held_check(s, cfg, e, inp, symbol, price, reason) ==
    LET rt == s.runtime
        risk == cfg.risk_limits
        budget == risk.max_buy_amount_per_trade_krw
        qty == budget \div price
        order == place_order(cfg, e, inp)
        placed == [s EXCEPT !.io.orders = Append(@, Order(symbol, qty, "BUY", price, order))]
        trade_id == Len(s.trades) + 1
    IN  IF Cardinality(DOMAIN rt.open_positions) >= risk.max_positions THEN s
        ELSE IF qty <= 0 THEN s
        ELSE IF order.raised THEN [placed EXCEPT !.err = order.error]
        ELSE IF order.status \in Ok
        THEN IF inp.fault = "open_trade"
             THEN [placed EXCEPT !.err = "sqlite3.Error: open_trade"]
             ELSE [placed EXCEPT
                      !.trades = open_trade(@, symbol, qty, price),
                      !.runtime.open_positions =
                          (symbol :> [trade_id |-> trade_id, entry_price |-> price, qty |-> qty]) @@ @,
                      !.runtime.daily_trades = @ + 1,
                      !.io.sent = Append(@, [kind |-> "entry", symbol |-> symbol])]
        ELSE placed

\* _try_entry recording the position whatever status the order returns
_try_entry_any_status(s, cfg, e, inp, symbol, price, reason) ==
    LET rt == s.runtime
        risk == cfg.risk_limits
        budget == risk.max_buy_amount_per_trade_krw
        qty == budget \div price
        order == place_order(cfg, e, inp)
        placed == [s EXCEPT !.io.orders = Append(@, Order(symbol, qty, "BUY", price, order))]
        trade_id == Len(s.trades) + 1
    IN  IF symbol \in DOMAIN rt.open_positions THEN s
        ELSE IF Cardinality(DOMAIN rt.open_positions) >= risk.max_positions THEN s
        ELSE IF qty <= 0 THEN s
        ELSE IF order.raised THEN [placed EXCEPT !.err = order.error]
        ELSE IF order.status \in Ok \cup {"BLOCKED"}
        THEN IF inp.fault = "open_trade"
             THEN [placed EXCEPT !.err = "sqlite3.Error: open_trade"]
             ELSE [placed EXCEPT
                      !.trades = open_trade(@, symbol, qty, price),
                      !.runtime.open_positions =
                          (symbol :> [trade_id |-> trade_id, entry_price |-> price, qty |-> qty]) @@ @,
                      !.runtime.daily_trades = @ + 1,
                      !.io.sent = Append(@, [kind |-> "entry", symbol |-> symbol])]
        ELSE placed

\* _try_entry letting one position more than max_positions in
_try_entry_cap_off_by_one(s, cfg, e, inp, symbol, price, reason) ==
    LET rt == s.runtime
        risk == cfg.risk_limits
        budget == risk.max_buy_amount_per_trade_krw
        qty == budget \div price
        order == place_order(cfg, e, inp)
        placed == [s EXCEPT !.io.orders = Append(@, Order(symbol, qty, "BUY", price, order))]
        trade_id == Len(s.trades) + 1
    IN  IF symbol \in DOMAIN rt.open_positions THEN s
        ELSE IF Cardinality(DOMAIN rt.open_positions) > risk.max_positions THEN s
        ELSE IF qty <= 0 THEN s
        ELSE IF order.raised THEN [placed EXCEPT !.err = order.error]
        ELSE IF order.status \in Ok
        THEN IF inp.fault = "open_trade"
             THEN [placed EXCEPT !.err = "sqlite3.Error: open_trade"]
             ELSE [placed EXCEPT
                      !.trades = open_trade(@, symbol, qty, price),
                      !.runtime.open_positions =
                          (symbol :> [trade_id |-> trade_id, entry_price |-> price, qty |-> qty]) @@ @,
                      !.runtime.daily_trades = @ + 1,
                      !.io.sent = Append(@, [kind |-> "entry", symbol |-> symbol])]
        ELSE placed

\* _try_entry buying at least one share
_try_entry_min_one_share(s, cfg, e, inp, symbol, price, reason) ==
    LET rt == s.runtime
        risk == cfg.risk_limits
        budget == risk.max_buy_amount_per_trade_krw
        qty == Max(1, budget \div price)
        order == place_order(cfg, e, inp)
        placed == [s EXCEPT !.io.orders = Append(@, Order(symbol, qty, "BUY", price, order))]
        trade_id == Len(s.trades) + 1
    IN  IF symbol \in DOMAIN rt.open_positions THEN s
        ELSE IF Cardinality(DOMAIN rt.open_positions) >= risk.max_positions THEN s
        ELSE IF qty <= 0 THEN s
        ELSE IF order.raised THEN [placed EXCEPT !.err = order.error]
        ELSE IF order.status \in Ok
        THEN IF inp.fault = "open_trade"
             THEN [placed EXCEPT !.err = "sqlite3.Error: open_trade"]
             ELSE [placed EXCEPT
                      !.trades = open_trade(@, symbol, qty, price),
                      !.runtime.open_positions =
                          (symbol :> [trade_id |-> trade_id, entry_price |-> price, qty |-> qty]) @@ @,
                      !.runtime.daily_trades = @ + 1,
                      !.io.sent = Append(@, [kind |-> "entry", symbol |-> symbol])]
        ELSE placed

_try_entry(s, cfg, e, inp, symbol, price, reason) ==
    LET rt == s.runtime
        risk == cfg.risk_limits
        budget == risk.max_buy_amount_per_trade_krw
        qty == budget \div price
        order == place_order(cfg, e, inp)
        placed == [s EXCEPT !.io.orders = Append(@, Order(symbol, qty, "BUY", price, order))]
        trade_id == Len(s.trades) + 1
    IN  IF symbol \in DOMAIN rt.open_positions THEN s
        ELSE IF Cardinality(DOMAIN rt.open_positions) >= risk.max_positions THEN s
        ELSE IF qty <= 0 THEN s
        ELSE IF order.raised THEN [placed EXCEPT !.err = order.error]
        ELSE IF order.status \in Ok
        THEN IF inp.fault = "open_trade"
             THEN [placed EXCEPT !.err = "sqlite3.Error: open_trade"]
             ELSE [placed EXCEPT
                      !.trades = open_trade(@, symbol, qty, price),
                      !.runtime.open_positions =
                          (symbol :> [trade_id |-> trade_id, entry_price |-> price, qty |-> qty]) @@ @,
                      !.runtime.daily_trades = @ + 1,
                      !.io.sent = Append(@, [kind |-> "entry", symbol |-> symbol])]
        ELSE placed

\* pnl = (q.price - entry_price) * qty - 500
Fee == 500

\* _manage_positions closing the position whatever status the order returns
_manage_positions_any_status(s, cfg, e, inp, q, t) ==
    LET rt == s.runtime
        exit_cfg == cfg.stages.exit
        pos == rt.open_positions[q.symbol]
        \* change_pct = (q.price / entry_price - 1) * 100, in hundredths of a percent
        should_exit ==
            \/ (q.price - pos.entry_price) * 10000 <= -exit_cfg.stop_loss_pct * pos.entry_price
            \/ (q.price - pos.entry_price) * 10000 >= exit_cfg.take_profit_pct * pos.entry_price
        order == place_order(cfg, e, inp)
        placed == [s EXCEPT !.io.orders = Append(@, Order(q.symbol, pos.qty, "SELL", q.price, order))]
        pnl == (q.price - pos.entry_price) * pos.qty - Fee
        losses == IF pnl < 0 THEN rt.consecutive_losses + 1 ELSE 0
    IN  IF q.symbol \notin DOMAIN rt.open_positions THEN s
        ELSE IF ~should_exit THEN s
        ELSE IF order.raised THEN [placed EXCEPT !.err = order.error]
        ELSE IF order.status \in Ok \cup {"BLOCKED"}
        THEN IF inp.fault = "close_trade"
             THEN [placed EXCEPT !.err = "sqlite3.Error: close_trade"]
             ELSE [placed EXCEPT
                      !.trades = close_trade(@, pos.trade_id, q.price, Fee),
                      !.runtime.daily_loss_krw = @ + Min(0, pnl),
                      !.runtime.consecutive_losses = losses,
                      !.runtime.cooldown_until_epoch =
                          IF losses >= cfg.risk_limits.cooldown_after_consecutive_losses
                          THEN t + cfg.risk_limits.cooldown_minutes * 60
                          ELSE @,
                      !.runtime.open_positions = Remove(@, q.symbol),
                      !.io.sent = Append(@, [kind |-> "exit", symbol |-> q.symbol])]
        ELSE placed

\* _manage_positions comparing change_pct strictly with the two thresholds
_manage_positions_strict(s, cfg, e, inp, q, t) ==
    LET rt == s.runtime
        exit_cfg == cfg.stages.exit
        pos == rt.open_positions[q.symbol]
        \* change_pct = (q.price / entry_price - 1) * 100, in hundredths of a percent
        should_exit ==
            \/ (q.price - pos.entry_price) * 10000 < -exit_cfg.stop_loss_pct * pos.entry_price
            \/ (q.price - pos.entry_price) * 10000 > exit_cfg.take_profit_pct * pos.entry_price
        order == place_order(cfg, e, inp)
        placed == [s EXCEPT !.io.orders = Append(@, Order(q.symbol, pos.qty, "SELL", q.price, order))]
        pnl == (q.price - pos.entry_price) * pos.qty - Fee
        losses == IF pnl < 0 THEN rt.consecutive_losses + 1 ELSE 0
    IN  IF q.symbol \notin DOMAIN rt.open_positions THEN s
        ELSE IF ~should_exit THEN s
        ELSE IF order.raised THEN [placed EXCEPT !.err = order.error]
        ELSE IF order.status \in Ok
        THEN IF inp.fault = "close_trade"
             THEN [placed EXCEPT !.err = "sqlite3.Error: close_trade"]
             ELSE [placed EXCEPT
                      !.trades = close_trade(@, pos.trade_id, q.price, Fee),
                      !.runtime.daily_loss_krw = @ + Min(0, pnl),
                      !.runtime.consecutive_losses = losses,
                      !.runtime.cooldown_until_epoch =
                          IF losses >= cfg.risk_limits.cooldown_after_consecutive_losses
                          THEN t + cfg.risk_limits.cooldown_minutes * 60
                          ELSE @,
                      !.runtime.open_positions = Remove(@, q.symbol),
                      !.io.sent = Append(@, [kind |-> "exit", symbol |-> q.symbol])]
        ELSE placed

\* _manage_positions adding the pnl itself, gains included, to daily_loss_krw
_manage_positions_adds_pnl(s, cfg, e, inp, q, t) ==
    LET rt == s.runtime
        exit_cfg == cfg.stages.exit
        pos == rt.open_positions[q.symbol]
        \* change_pct = (q.price / entry_price - 1) * 100, in hundredths of a percent
        should_exit ==
            \/ (q.price - pos.entry_price) * 10000 <= -exit_cfg.stop_loss_pct * pos.entry_price
            \/ (q.price - pos.entry_price) * 10000 >= exit_cfg.take_profit_pct * pos.entry_price
        order == place_order(cfg, e, inp)
        placed == [s EXCEPT !.io.orders = Append(@, Order(q.symbol, pos.qty, "SELL", q.price, order))]
        pnl == (q.price - pos.entry_price) * pos.qty - Fee
        losses == IF pnl < 0 THEN rt.consecutive_losses + 1 ELSE 0
    IN  IF q.symbol \notin DOMAIN rt.open_positions THEN s
        ELSE IF ~should_exit THEN s
        ELSE IF order.raised THEN [placed EXCEPT !.err = order.error]
        ELSE IF order.status \in Ok
        THEN IF inp.fault = "close_trade"
             THEN [placed EXCEPT !.err = "sqlite3.Error: close_trade"]
             ELSE [placed EXCEPT
                      !.trades = close_trade(@, pos.trade_id, q.price, Fee),
                      !.runtime.daily_loss_krw = @ + pnl,
                      !.runtime.consecutive_losses = losses,
                      !.runtime.cooldown_until_epoch =
                          IF losses >= cfg.risk_limits.cooldown_after_consecutive_losses
                          THEN t + cfg.risk_limits.cooldown_minutes * 60
                          ELSE @,
                      !.runtime.open_positions = Remove(@, q.symbol),
                      !.io.sent = Append(@, [kind |-> "exit", symbol |-> q.symbol])]
        ELSE placed

\* _manage_positions starting the cooldown only once the streak exceeds the threshold
_manage_positions_late_cooldown(s, cfg, e, inp, q, t) ==
    LET rt == s.runtime
        exit_cfg == cfg.stages.exit
        pos == rt.open_positions[q.symbol]
        \* change_pct = (q.price / entry_price - 1) * 100, in hundredths of a percent
        should_exit ==
            \/ (q.price - pos.entry_price) * 10000 <= -exit_cfg.stop_loss_pct * pos.entry_price
            \/ (q.price - pos.entry_price) * 10000 >= exit_cfg.take_profit_pct * pos.entry_price
        order == place_order(cfg, e, inp)
        placed == [s EXCEPT !.io.orders = Append(@, Order(q.symbol, pos.qty, "SELL", q.price, order))]
        pnl == (q.price - pos.entry_price) * pos.qty - Fee
        losses == IF pnl < 0 THEN rt.consecutive_losses + 1 ELSE 0
    IN  IF q.symbol \notin DOMAIN rt.open_positions THEN s
        ELSE IF ~should_exit THEN s
        ELSE IF order.raised THEN [placed EXCEPT !.err = order.error]
        ELSE IF order.status \in Ok
        THEN IF inp.fault = "close_trade"
             THEN [placed EXCEPT !.err = "sqlite3.Error: close_trade"]
             ELSE [placed EXCEPT
                      !.trades = close_trade(@, pos.trade_id, q.price, Fee),
                      !.runtime.daily_loss_krw = @ + Min(0, pnl),
                      !.runtime.consecutive_losses = losses,
                      !.runtime.cooldown_until_epoch =
                          IF losses > cfg.risk_limits.cooldown_after_consecutive_losses
                          THEN t + cfg.risk_limits.cooldown_minutes * 60
                          ELSE @,
                      !.runtime.open_positions = Remove(@, q.symbol),
                      !.io.sent = Append(@, [kind |-> "exit", symbol |-> q.symbol])]
        ELSE placed

\* _manage_positions testing the stop-loss without its minus sign
_manage_positions_unsigned_stop(s, cfg, e, inp, q, t) ==
    LET rt == s.runtime
        exit_cfg == cfg.stages.exit
        pos == rt.open_positions[q.symbol]
        \* change_pct = (q.price / entry_price - 1) * 100, in hundredths of a percent
        should_exit ==
            \/ (q.price - pos.entry_price) * 10000 <= exit_cfg.stop_loss_pct * pos.entry_price
            \/ (q.price - pos.entry_price) * 10000 >= exit_cfg.take_profit_pct * pos.entry_price
        order == place_order(cfg, e, inp)
        placed == [s EXCEPT !.io.orders = Append(@, Order(q.symbol, pos.qty, "SELL", q.price, order))]
        pnl == (q.price - pos.entry_price) * pos.qty - Fee
        losses == IF pnl < 0 THEN rt.consecutive_losses + 1 ELSE 0
    IN  IF q.symbol \notin DOMAIN rt.open_positions THEN s
        ELSE IF ~should_exit THEN s
        ELSE IF order.raised THEN [placed EXCEPT !.err = order.error]
        ELSE IF order.status \in Ok
        THEN IF inp.fault = "close_trade"
             THEN [placed EXCEPT !.err = "sqlite3.Error: close_trade"]
             ELSE [placed EXCEPT
                      !.trades = close_trade(@, pos.trade_id, q.price, Fee),
                      !.runtime.daily_loss_krw = @ + Min(0, pnl),
                      !.runtime.consecutive_losses = losses,
                      !.runtime.cooldown_until_epoch =
                          IF losses >= cfg.risk_limits.cooldown_after_consecutive_losses
                          THEN t + cfg.risk_limits.cooldown_minutes * 60
                          ELSE @,
                      !.runtime.open_positions = Remove(@, q.symbol),
                      !.io.sent = Append(@, [kind |-> "exit", symbol |-> q.symbol])]
        ELSE placed

\* one iteration of the for-loop of _manage_positions
_manage_positions(s, cfg, e, inp, q, t) ==
    LET rt == s.runtime
        exit_cfg == cfg.stages.exit
        pos == rt.open_positions[q.symbol]
        \* change_pct = (q.price / entry_price - 1) * 100, in hundredths of a percent
        should_exit ==
            \/ (q.price - pos.entry_price) * 10000 <= -exit_cfg.stop_loss_pct * pos.entry_price
            \/ (q.price - pos.entry_price) * 10000 >= exit_cfg.take_profit_pct * pos.entry_price
        order == place_order(cfg, e, inp)
        placed == [s EXCEPT !.io.orders = Append(@, Order(q.symbol, pos.qty, "SELL", q.price, order))]
        pnl == (q.price - pos.entry_price) * pos.qty - Fee
        losses == IF pnl < 0 THEN rt.consecutive_losses + 1 ELSE 0
    IN  IF q.symbol \notin DOMAIN rt.open_positions THEN s
        ELSE IF ~should_exit THEN s
        ELSE IF order.raised THEN [placed EXCEPT !.err = order.error]
        ELSE IF order.status \in Ok
        THEN IF inp.fault = "close_trade"
             THEN [placed EXCEPT !.err = "sqlite3.Error: close_trade"]
             ELSE [placed EXCEPT
                      !.trades = close_trade(@, pos.trade_id, q.price, Fee),
                      !.runtime.daily_loss_krw = @ + Min(0, pnl),
                      !.runtime.consecutive_losses = losses,
                      !.runtime.cooldown_until_epoch =
                          IF losses >= cfg.risk_limits.cooldown_after_consecutive_losses
                          THEN t + cfg.risk_limits.cooldown_minutes * 60
                          ELSE @,
                      !.runtime.open_positions = Remove(@, q.symbol),
                      !.io.sent = Append(@, [kind |-> "exit", symbol |-> q.symbol])]
        ELSE placed

\* the loop body entering on every passed quote, whatever the market status
score_quote_ignores_market(s, cfg, e, inp, q, can_place_order) ==
    LET result == evaluate(cfg, q)
        signal == [symbol |-> q.symbol, total_score |-> result.total_score,
                   pass_fail |-> IF result.passed THEN "PASS" ELSE "FAIL"]
        recorded == [s EXCEPT !.io.signals = Append(@, signal)]
    IN  IF inp.fault = "insert_signal"
        THEN [s EXCEPT !.err = "sqlite3.Error: insert_signal"]
        ELSE IF result.passed
        THEN _try_entry(recorded, cfg, e, inp, q.symbol, q.price, result.reason)
        ELSE recorded

\* the body of the first for-loop of tick(), for one quote
score_quote(s, cfg, e, inp, q, can_place_order) ==
    LET result == evaluate(cfg, q)
        signal == [symbol |-> q.symbol, total_score |-> result.total_score,
                   pass_fail |-> IF result.passed THEN "PASS" ELSE "FAIL"]
        recorded == [s EXCEPT !.io.signals = Append(@, signal)]
    IN  IF inp.fault = "insert_signal"
        THEN [s EXCEPT !.err = "sqlite3.Error: insert_signal"]
        ELSE IF result.passed /\ can_place_order
        THEN _try_entry(recorded, cfg, e, inp, q.symbol, q.price, result.reason)
        ELSE recorded

\* the except clause recording and notifying the failure but leaving the engine on
on_fatal_stays_enabled(s) ==
    [s EXCEPT !.runtime.fatal_error = s.err,
              !.io.sent = Append(@, [kind |-> "fatal", symbol |-> s.err]),
              !.err = "None"]

\* the except clause of tick(): the exception is handled, not raised again
on_fatal(s) ==
    [s EXCEPT !.runtime.fatal_error = s.err,
              !.runtime.enabled = FALSE,
              !.io.sent = Append(@, [kind |-> "fatal", symbol |-> s.err]),
              !.err = "None"]

\* tick() without the check of runtime.enabled
tick_gate_ignores_enabled(rt, cfg, e, t) ==
    IF rt.cooldown_until_epoch > t THEN "cooldown"
    ELSE IF ~risk_check_detail(cfg, e, rt, t).ok THEN "denied"
    ELSE "run"

\* tick() without the call of risk_check_detail
tick_gate_no_risk_check(rt, cfg, e, t) ==
    IF ~rt.enabled THEN "disabled"
    ELSE IF rt.cooldown_until_epoch > t THEN "cooldown"
    ELSE "run"

\* what tick() does before the try block
tick_gate(rt, cfg, e, t) ==
    IF ~rt.enabled THEN "disabled"
    ELSE IF rt.cooldown_until_epoch > t THEN "cooldown"
    ELSE IF ~risk_check_detail(cfg, e, rt, t).ok THEN "denied"
    ELSE "run"

\* get_market_status(): the regular session, outside it, a holiday or weekend
MarketStatuses ==
    {[can_place_order |-> TRUE, reason |-> Reason("regular", <<>>)],
     [can_place_order |-> FALSE, reason |-> Reason("closed", <<>>)],
     [can_place_order |-> FALSE, reason |-> Reason("holiday", <<>>)]}

\* run_manual_diagnosis leaving the market status out of can_auto_order_now
run_manual_diagnosis_ignores_market(cfg, e, rt, t, market, f, qs) ==
    LET risk == risk_check_detail(cfg, e, rt, t)
        env_check == [mode |-> Get(cfg, "mode", "DRY-RUN"), credentials |-> e.credentials]
        env_ok == ~(env_check.mode = "LIVE" /\ ~env_check.credentials)
        Blocker(failed, gate, reason) ==
            IF failed THEN <<[gate |-> gate, reason |-> reason]>> ELSE <<>>
        Row(q) ==
            LET result == evaluate(cfg, q)
                can_auto_order_now == result.passed /\ risk.ok /\ env_ok
            IN  [symbol |-> q.symbol, price |-> q.price, total_score |-> result.total_score,
                 strategy_pass |-> result.passed,
                 can_auto_order_now |-> can_auto_order_now,
                 blocker |->
                    IF ~can_auto_order_now
                    THEN Blocker(~result.passed, "strategy", Reason("failed", <<>>))
                         \o Blocker(~market.can_place_order, "market", market.reason)
                         \o Blocker(~risk.ok, "risk", risk.reason)
                         \o Blocker(~env_ok, "env", Reason("missing", <<>>))
                    ELSE <<[gate |-> "none", reason |-> Reason("none", <<>>)]>>]
    IN  [market |-> market, risk_ok |-> risk.ok, risk_reason |-> risk.reason,
         env_check |-> env_check, env_ok |-> env_ok,
         error |-> f.error,
         rows |-> IF f.raised THEN <<>> ELSE [i \in DOMAIN qs |-> Row(qs[i])]]

\* run_manual_diagnosis after _reload_config: market is get_market_status(),
\* f what fetch_universe_quotes did, qs the quotes it returned.  The blocker
\* text is kept as the list of its parts, each the gate and its reason.
run_manual_diagnosis(cfg, e, rt, t, market, f, qs) ==
    LET risk == risk_check_detail(cfg, e, rt, t)
        env_check == [mode |-> Get(cfg, "mode", "DRY-RUN"), credentials |-> e.credentials]
        env_ok == ~(env_check.mode = "LIVE" /\ ~env_check.credentials)
        Blocker(failed, gate, reason) ==
            IF failed THEN <<[gate |-> gate, reason |-> reason]>> ELSE <<>>
        Row(q) ==
            LET result == evaluate(cfg, q)
                can_auto_order_now == result.passed /\ market.can_place_order /\ risk.ok /\ env_ok
            IN  [symbol |-> q.symbol, price |-> q.price, total_score |-> result.total_score,
                 strategy_pass |-> result.passed,
                 can_auto_order_now |-> can_auto_order_now,
                 blocker |->
                    IF ~can_auto_order_now
                    THEN Blocker(~result.passed, "strategy", Reason("failed", <<>>))
                         \o Blocker(~market.can_place_order, "market", market.reason)
                         \o Blocker(~risk.ok, "risk", risk.reason)
                         \o Blocker(~env_ok, "env", Reason("missing", <<>>))
                    ELSE <<[gate |-> "none", reason |-> Reason("none", <<>>)]>>]
    IN  [market |-> market, risk_ok |-> risk.ok, risk_reason |-> risk.reason,
         env_check |-> env_check, env_ok |-> env_ok,
         error |-> f.error,
         rows |-> IF f.raised THEN <<>> ELSE [i \in DOMAIN qs |-> Row(qs[i])]]

----------------------------------------------------------------------------
(* Inputs of one step: what the environment answers *)

Faults == {"none", "insert_signal", "open_trade", "close_trade"}

\* the gateway finds the market open and the network answering, the market
\* closed, or the market open and the network failing
Gateway == {[market |-> TRUE, net |-> TRUE], [market |-> FALSE, net |-> TRUE],
            [market |-> TRUE, net |-> FALSE]}

Input(g, fault) == [market |-> g.market, net |-> g.net, fault |-> fault]

\* a DRY-RUN gateway returns before it reads the market status or the network
Answers(cfg) == IF dry_run(cfg) THEN {g \in Gateway : g.market /\ g.net} ELSE Gateway

Inputs(cfg, faults) == {Input(g, f) : g \in Answers(cfg), f \in faults}

\* one quote per symbol of the universe, in the universe's order
QuoteLists ==
    {[i \in 1..Len(Universe) |-> Quote(Universe[i], f[i][1], f[i][2])] :
        f \in [1..Len(Universe) -> Prices \X Profiles]}

\* app/main.py: time.sleep(max(5, int(cfg.get("scan_interval_seconds", 60))))
MinSleep == 5
SleepSeconds(cfg) == Max(MinSleep, Get(cfg, "scan_interval_seconds", 60))

Here == [runtime |-> runtime, io |-> io, trades |-> trades, err |-> "None"]

\* The step ended in state s.  Either the loop goes on at (to, i), or an
\* exception reached the except clause of tick() and the tick is over; an
\* exception leaving tick() would end the while-loop of app/main.py.
Continue(s, to, i) ==
    LET r == IF s.err # "None" THEN on_fatal(s) ELSE s
    IN  /\ runtime' = r.runtime
        /\ io' = [r.io EXCEPT !.raised = s.err]
        /\ trades' = r.trades
        /\ pc' = IF r.err # "None" THEN "crashed"
                 ELSE IF s.err # "None" THEN "sleeping"
                 ELSE to
        /\ idx' = IF s.err # "None" THEN idx ELSE i

----------------------------------------------------------------------------
(* Actions *)

\* enable() that forgets the recorded failure when it switches the engine on
Enable_clears_fatal(is_on) ==
    /\ pc = "sleeping"
    /\ runtime' = IF is_on
                  THEN [runtime EXCEPT !.enabled = is_on, !.fatal_error = "None"]
                  ELSE [runtime EXCEPT !.enabled = is_on]
    /\ UNCHANGED <<config, env, now, pc, status, quotes, idx, trades, io, returned, kis, issued,
                   hb>>

\* enable() that starts a new day when it switches the engine on
Enable_resets_day(is_on) ==
    /\ pc = "sleeping"
    /\ runtime' = IF is_on
                  THEN [runtime EXCEPT !.enabled = is_on, !.daily_trades = 0,
                                       !.daily_loss_krw = 0]
                  ELSE [runtime EXCEPT !.enabled = is_on]
    /\ UNCHANGED <<config, env, now, pc, status, quotes, idx, trades, io, returned, kis, issued,
                   hb>>

\* AutoTradingEngine.enable, called between ticks
Enable(is_on) ==
    /\ pc = "sleeping"
    /\ runtime' = [runtime EXCEPT !.enabled = is_on]
    /\ UNCHANGED <<config, env, now, pc, status, quotes, idx, trades, io, returned, kis, issued,
                   hb>>

\* app/main.py: the loop sleeps between two ticks
Sleep ==
    /\ pc = "sleeping"
    /\ now + SleepSeconds(config) <= MaxCycles * SleepSeconds(config)
    /\ now' = now + SleepSeconds(config)
    /\ pc' = "ready"
    /\ UNCHANGED <<runtime, config, env, status, quotes, idx, trades, io, returned, kis, issued,
                   hb>>

\* tick() returns before the try block
TickSkipped(gate, warnings) ==
    /\ pc = "ready"
    /\ tick_gate(runtime, config, env, now) = gate
    /\ io' = [EmptyLog EXCEPT !.warnings = warnings]
    /\ pc' = "sleeping"
    /\ status' = FALSE
    /\ quotes' = <<>>
    /\ idx' = 0
    /\ kis' = KISClient
    /\ UNCHANGED <<runtime, config, env, now, trades, returned, issued, hb>>

\* a disabled tick that fetches the quotes before it returns
TickDisabled_after_fetch ==
    /\ pc = "ready"
    /\ tick_gate(runtime, config, env, now) = "disabled"
    /\ io' = [EmptyLog EXCEPT !.fetches = 1]
    /\ pc' = "sleeping"
    /\ status' = FALSE
    /\ quotes' \in QuoteLists
    /\ idx' = 0
    /\ kis' = KISClient
    /\ UNCHANGED <<runtime, config, env, now, trades, returned, issued, hb>>

TickDisabled == TickSkipped("disabled", <<>>)

TickCooldown == TickSkipped("cooldown", <<>>)

TickDenied == TickSkipped("denied", <<risk_check_detail(config, env, runtime, now).reason>>)

\* tick() enters the try block and fetches the quotes
TickFetch ==
    /\ pc = "ready"
    /\ tick_gate(runtime, config, env, now) = "run"
    /\ \E can_place_order \in BOOLEAN, inp \in {i \in Inputs(config, {"none"}) : i.market},
          expires_in \in {e \in TokenLifetimes : \A other \in TokenLifetimes : other <= e} :
         LET f == fetch_universe_quotes(config, env, inp)
             token == fetch_token(config, env, inp, now, expires_in)
             s == [Here EXCEPT !.io = [EmptyLog EXCEPT !.fetches = 1,
                                                       !.token_requests = token.requests],
                               !.err = f.error]
         IN  /\ status' = can_place_order
             /\ IF f.raised THEN quotes' = <<>> ELSE quotes' \in QuoteLists
             /\ kis' = token.kis
             /\ issued' = IF token.kis.token_expire_at # <<>> THEN token.kis.token_expire_at
                          ELSE issued
             /\ Continue(s, "scoring", 1)
    /\ UNCHANGED <<config, env, now, returned, hb>>

\* one iteration of "for q in quotes": evaluate, insert_signal, _try_entry
ScoreStep ==
    /\ pc = "scoring"
    /\ \E inp \in Inputs(config, {"none", "insert_signal", "open_trade"}) :
         LET s == score_quote(Here, config, env, inp, quotes[idx], status)
         IN  IF idx < Len(quotes)
             THEN Continue(s, "scoring", idx + 1)
             ELSE Continue(s, "exits", 1)
    /\ UNCHANGED <<config, env, now, status, quotes, returned, kis, issued, hb>>

\* one iteration of the for-loop of _manage_positions(quotes)
ExitStep ==
    /\ pc = "exits"
    /\ \E inp \in Inputs(config, {"none", "close_trade"}) :
         LET s == _manage_positions(Here, config, env, inp, quotes[idx], now)
         IN  IF idx < Len(quotes)
             THEN Continue(s, "exits", idx + 1)
             ELSE Continue(s, "sleeping", idx)
    /\ UNCHANGED <<config, env, now, status, quotes, returned, kis, issued, hb>>

Init ==
    /\ runtime = EngineRuntime
    /\ \E d \in Deployments : config = d[1] /\ env = d[2]
    /\ now = 0
    /\ pc = "sleeping"
    /\ status = FALSE
    /\ quotes = <<>>
    /\ idx = 0
    /\ trades = <<>>
    /\ io = EmptyLog
    /\ returned = <<>>
    /\ kis = KISClient
    /\ issued = <<>>
    /\ hb = Heartbeat

Next ==
    \/ \E is_on \in BOOLEAN : Enable(is_on)
    \/ Sleep
    \/ TickDisabled
    \/ TickCooldown
    \/ TickDenied
    \/ TickFetch
    \/ ScoreStep
    \/ ExitStep

Spec == Init /\ [][Next]_vars

----------------------------------------------------------------------------
(* The try block of one tick, entered from the states an engine can hold    *)
(* after earlier ticks: some symbols held, a streak of losing exits behind  *)
(* it.  The quotes carry prices on both sides of the exit thresholds and of *)
(* the per-trade budget.                                                    *)

CyclePrices == {68700, 68740, 69000, 70000, 72940, 73000, 150000, 160000}

CycleQuoteLists ==
    {[i \in 1..Len(Universe) |-> Quote(Universe[i], f[i][1], f[i][2])] :
        f \in [1..Len(Universe) -> CyclePrices \X Profiles]}

\* the count and loss caps are off (0), so the gates of tick() let every
\* history through
CycleConfig(mode, max_positions, threshold) ==
    [DryRunConfig EXCEPT !.mode = mode,
                         !.risk_limits.max_orders_per_day = 0,
                         !.risk_limits.max_daily_loss_krw = 0,
                         !.risk_limits.max_positions = max_positions,
                         !.risk_limits.cooldown_after_consecutive_losses = threshold]

CycleConfigs ==
    {CycleConfig(mode, max_positions, threshold) :
        mode \in {"DRY-RUN", "LIVE"}, max_positions \in {1, 2}, threshold \in {1, 3}}

\* losing exits in a row behind the engine
CycleStreaks == {0, 2}

\* the held symbols in the order they were entered
HeldSeq(held) ==
    LET IsHeld(sym) == sym \in held
    IN  SelectSeq(Universe, IsHeld)

\* the trades table: streak losing exits of 005930 (in at 70000, out at
\* 68700), then one open row per held symbol, entered at 70000
CycleTrades(cfg, held, streak) ==
    LET qty == cfg.risk_limits.max_buy_amount_per_trade_krw \div 70000
        lost == [i \in 1..streak |->
                    close_trade(open_trade(<<>>, Universe[1], qty, 70000), 1, 68700, Fee)[1]]
        open == [i \in 1..Len(HeldSeq(held)) |->
                    open_trade(<<>>, HeldSeq(held)[i], qty, 70000)[1]]
    IN  lost \o open

CycleRuntime(cfg, held, streak, t) ==
    LET rows == CycleTrades(cfg, held, streak)
        Id(sym) == CHOOSE i \in DOMAIN rows : rows[i].symbol = sym /\ rows[i].status = "OPEN"
    IN  [EngineRuntime EXCEPT
            !.enabled = TRUE,
            !.open_positions =
                [sym \in held |-> [trade_id |-> Id(sym), entry_price |-> rows[Id(sym)].entry_price,
                                   qty |-> rows[Id(sym)].qty]],
            !.daily_trades = Len(rows),
            !.daily_loss_krw = IF streak = 0 THEN 0 ELSE streak * Min(0, rows[1].pnl),
            !.consecutive_losses = streak,
            !.cooldown_until_epoch =
                IF streak >= cfg.risk_limits.cooldown_after_consecutive_losses THEN t ELSE 0]

InitCycle ==
    /\ now = 600
    /\ env = Env(<<>>, TRUE, FALSE)
    /\ \E cfg \in CycleConfigs, held \in SUBSET {Universe[i] : i \in DOMAIN Universe},
          streak \in CycleStreaks :
         /\ Cardinality(held) <= cfg.risk_limits.max_positions
         /\ config = cfg
         /\ runtime = CycleRuntime(cfg, held, streak, now)
         /\ trades = CycleTrades(cfg, held, streak)
         /\ tick_gate(runtime, config, env, now) = "run"
    /\ pc = "scoring"
    /\ status = TRUE
    /\ quotes \in CycleQuoteLists
    /\ idx = 1
    /\ LET token == fetch_token(config, env, [net |-> TRUE], now, 180)
       IN  /\ io = [EmptyLog EXCEPT !.fetches = 1, !.token_requests = token.requests]
           /\ kis = token.kis
           /\ issued = token.kis.token_expire_at
    /\ returned = <<>>
    /\ hb = Heartbeat

NextCycle ==
    \/ ScoreStep
    \/ ExitStep

SpecCycle == InitCycle /\ [][NextCycle]_vars

----------------------------------------------------------------------------
(* One KISClient in LIVE mode with credentials, called directly: LIVE calls  *)
(* that need a token (a quote fetch, an order with the market open), each    *)
(* made some seconds after the one before, the token endpoint answering      *)
(* each request of the retry sequence with a failure or a token.  returned  *)
(* is the log of the calls: when the call was made, the _token_expire_at it  *)
(* found cached, the token requests it sent, the _token_expire_at it left,   *)
(* whether it raised.                                                        *)

MaxCalls == 3

\* seconds between two calls
TokenWaits == {0, 45, 60, 120}

LiveCall ==
    /\ Len(returned) < MaxCalls
    /\ \E wait \in TokenWaits, answers \in [1..RetryAttempts -> TokenAnswers] :
         LET t == now + wait
             got == retry(kis, t, answers, 1)
         IN  /\ now' = t
             /\ kis' = got.kis
             /\ issued' = IF got.kis # kis THEN got.kis.token_expire_at ELSE issued
             /\ io' = [io EXCEPT !.token_requests = got.requests,
                                 !.raised = IF got.raised THEN "RetryError" ELSE "None"]
             /\ returned' = Append(returned,
                                   [at |-> t, cached |-> kis.token_expire_at,
                                    requests |-> got.requests, raised |-> got.raised,
                                    token_expire_at |-> got.kis.token_expire_at])
    /\ UNCHANGED <<runtime, config, env, pc, status, quotes, idx, trades, hb>>

InitToken ==
    /\ runtime = EngineRuntime
    /\ config = LiveConfig
    /\ env = Env(<<>>, TRUE, FALSE)
    /\ now = 0
    /\ pc = "sleeping"
    /\ status = FALSE
    /\ quotes = <<>>
    /\ idx = 0
    /\ trades = <<>>
    /\ io = EmptyLog
    /\ returned = <<>>
    /\ kis = KISClient
    /\ issued = <<>>
    /\ hb = Heartbeat

NextToken == LiveCall

SpecToken == InitToken /\ [][NextToken]_vars

----------------------------------------------------------------------------
(* One call of place_order or fetch_universe_quotes on a KISClient, made     *)
(* directly as the tests of test_kis_client.py make it: in DRY-RUN or LIVE,  *)
(* with or without the credentials and KIS_MOCK_ORDER, with tenacity         *)
(* installed or not, the market open or closed (status), a token cached or   *)
(* not, and every sequence of answers of the network.  returned is the call *)
(* with the answers its attempts received and its result.                    *)

\* the environment of the process: the variables KISClient reads, and whether
\* the import of tenacity succeeds
GatewayEnv(creds, mock, tenacity) == Env(<<>>, creds, mock) @@ [tenacity |-> tenacity]

\* a new client, or one that fetched a token a minute ago
GatewayClients == {KISClient, [KISClient EXCEPT !.token_expire_at = <<60>>]}

\* the sides an order is placed with: those of the engine, and one _tr_id rejects
Sides == {"BUY", "SELL", "HOLD"}

GatewayCall(op, side, prices) ==
    [op |-> op, side |-> side, dry_run |-> dry_run(config), env |-> env, market |-> status,
     tenacity |-> env.tenacity, at |-> now, cached |-> kis.token_expire_at, prices |-> prices]

\* the call ends with result r
GatewayReturn(call, answers, r) ==
    /\ returned' = <<[call |-> call, answers |-> SubSeq(answers, 1, r.attempts), result |-> r]>>
    /\ kis' = r.kis
    /\ issued' = IF r.kis # kis THEN r.kis.token_expire_at ELSE issued
    /\ io' = [io EXCEPT !.raised = r.error]
    /\ UNCHANGED <<runtime, config, env, now, pc, status, quotes, idx, trades, hb>>

PlaceOrder ==
    /\ returned = <<>>
    /\ \E side \in Sides,
          answers \in [1..RetryAttempts -> [token : TokenReplies, order : OrderReplies]] :
         LET call == GatewayCall("place_order", side, <<>>)
         IN  GatewayReturn(call, answers, retrying(call, kis, answers, 1, <<>>))

FetchQuotes ==
    /\ returned = <<>>
    /\ \E answers \in [1..RetryAttempts -> [token : TokenReplies, order : {"accepted"}]],
          prices \in [DOMAIN Universe -> PriceReplies] :
         LET call == GatewayCall("fetch_universe_quotes", "None", prices)
         IN  GatewayReturn(call, answers, retrying(call, kis, answers, 1, <<>>))

InitGateway ==
    /\ runtime = EngineRuntime
    /\ config \in {DryRunConfig, LiveConfig}
    /\ env \in {GatewayEnv(creds, mock, tenacity) : creds, mock, tenacity \in BOOLEAN}
    /\ now = 0
    /\ pc = "sleeping"
    /\ status \in BOOLEAN
    /\ quotes = <<>>
    /\ idx = 0
    /\ trades = <<>>
    /\ io = EmptyLog
    /\ returned = <<>>
    /\ kis \in GatewayClients
    /\ issued = kis.token_expire_at
    /\ hb = Heartbeat

NextGateway ==
    \/ PlaceOrder
    \/ FetchQuotes

SpecGateway == InitGateway /\ [][NextGateway]_vars

----------------------------------------------------------------------------
(* run_manual_diagnosis() called once on an engine between ticks, in DRY-RUN *)
(* or LIVE, with or without credentials, the risk governor admitting or      *)
(* denying (order count at the cap, cooldown running), the market in each of *)
(* its statuses, the gateway answering or not.  returned is the dict.        *)

DiagnosisRuntimes ==
    {[EngineRuntime EXCEPT !.enabled = TRUE, !.daily_trades = daily_trades,
                           !.cooldown_until_epoch = cooldown_until_epoch] :
        daily_trades \in {0, RiskLimits.max_orders_per_day},
        cooldown_until_epoch \in {0, 100}}

Diagnose ==
    /\ returned = <<>>
    /\ \E market \in {m \in MarketStatuses : m.can_place_order = status},
          net \in {n \in BOOLEAN : dry_run(config) => n},
          qs \in QuoteLists :
         LET inp == Input([market |-> market.can_place_order, net |-> net], "none")
             f == fetch_universe_quotes(config, env, inp)
             token == fetch_token(config, env, inp, now, 180)
         IN  /\ returned' = <<run_manual_diagnosis(config, env, runtime, now, market, f, qs)>>
             /\ kis' = token.kis
             /\ issued' = IF token.kis.token_expire_at # <<>> THEN token.kis.token_expire_at
                          ELSE issued
             /\ io' = [EmptyLog EXCEPT !.fetches = 1, !.token_requests = token.requests,
                                       !.raised = f.error]
    /\ UNCHANGED <<runtime, config, env, now, pc, status, quotes, idx, trades, hb>>

InitDiagnosis ==
    /\ runtime \in DiagnosisRuntimes
    /\ \E d \in Deployments : config = d[1] /\ env = d[2]
    /\ now = 0
    /\ pc = "sleeping"
    /\ status \in BOOLEAN
    /\ quotes = <<>>
    /\ idx = 0
    /\ trades = <<>>
    /\ io = EmptyLog
    /\ returned = <<>>
    /\ kis = KISClient
    /\ issued = <<>>
    /\ hb = Heartbeat

NextDiagnosis == Diagnose

SpecDiagnosis == InitDiagnosis /\ [][NextDiagnosis]_vars

----------------------------------------------------------------------------
(* The two threads of app/main.py on one engine in DRY-RUN: the trading     *)
(* loop, whose updates of the runtime are taken assignment by assignment in  *)
(* the order of the source, and the health server's thread inside            *)
(* heartbeat(), which reads one field at a time.  No lock is taken by        *)
(* either, so the interpreter may switch threads between any two of these    *)
(* steps.  pc is the place of the trading loop: "tick" between updates,      *)
(* else the update it is inside.  returned is the dict of the last           *)
(* heartbeat() that ended.                                                   *)

MaxEntries == 2

\* the prices the quotes of the trading loop carry here: the lowest and the
\* highest, a stop-loss or a take-profit away from each other
HeartbeatPrices ==
    {p \in Prices : (\A other \in Prices : p <= other) \/ (\A other \in Prices : p >= other)}

\* the fields heartbeat() reads, in the order it reads them
HeartbeatFields == <<"enabled", "fatal_error", "open_positions", "daily_trades", "daily_loss_krw">>

\* the value heartbeat() reads for a field
HeartbeatValue(rt, field) ==
    IF field = "open_positions" THEN Cardinality(DOMAIN rt.open_positions) ELSE rt[field]

\* the dict of a heartbeat() that read every field of rt at once
HeartbeatDict(rt) ==
    [enabled |-> rt.enabled, fatal_error |-> rt.fatal_error,
     open_positions |-> Cardinality(DOMAIN rt.open_positions),
     daily_trades |-> rt.daily_trades, daily_loss_krw |-> rt.daily_loss_krw]

\* the trading loop goes to place to: back at "tick" an update is complete
LoopAt(to) ==
    /\ pc' = to
    /\ hb' = IF to = "tick" THEN [hb EXCEPT !.instants = @ \cup {HeartbeatDict(runtime')}] ELSE hb
    /\ UNCHANGED <<config, env, now, status, returned, kis, issued>>

\* _try_entry up to self.runtime.open_positions[symbol] = {...}
EntryWritesPosition ==
    /\ pc = "tick" /\ runtime.enabled
    /\ runtime.daily_trades < MaxEntries
    /\ \E i \in DOMAIN Universe, price \in HeartbeatPrices :
         LET s == _try_entry(Here, config, env, Input([market |-> TRUE, net |-> TRUE], "none"),
                             Universe[i], price, "pass")
         IN  /\ s.runtime # runtime
             /\ runtime' = [runtime EXCEPT !.open_positions = s.runtime.open_positions]
             /\ trades' = s.trades
             /\ io' = [s.io EXCEPT !.sent = io.sent]
             /\ quotes' = <<Quote(Universe[i], price, StrongProfile)>>
             /\ idx' = 1
    /\ LoopAt("entry")

\* self.runtime.daily_trades += 1, and the notification
EntryWritesCount ==
    /\ pc = "entry"
    /\ runtime' = [runtime EXCEPT !.daily_trades = @ + 1]
    /\ io' = [io EXCEPT !.sent = Append(@, [kind |-> "entry", symbol |-> quotes[idx].symbol])]
    /\ UNCHANGED <<quotes, idx, trades>>
    /\ LoopAt("tick")

\* _manage_positions up to self.runtime.daily_loss_krw += min(0, pnl)
ExitWritesLoss ==
    /\ pc = "tick" /\ runtime.enabled
    /\ \E i \in DOMAIN Universe, price \in HeartbeatPrices :
         LET q == Quote(Universe[i], price, StrongProfile)
             s == _manage_positions(Here, config, env,
                                    Input([market |-> TRUE, net |-> TRUE], "none"), q, now)
         IN  /\ s.runtime # runtime
             /\ runtime' = [runtime EXCEPT !.daily_loss_krw = s.runtime.daily_loss_krw]
             /\ trades' = s.trades
             /\ io' = [s.io EXCEPT !.sent = io.sent]
             /\ quotes' = <<q>>
             /\ idx' = 1
    /\ LoopAt("exit")

\* the rest of the exit: consecutive_losses, cooldown_until_epoch,
\* del self.runtime.open_positions[q.symbol], and the notification
ExitWritesRest ==
    /\ pc = "exit"
    /\ LET s == _manage_positions(Here, config, env,
                                  Input([market |-> TRUE, net |-> TRUE], "none"), quotes[idx], now)
       IN  /\ runtime' = [runtime EXCEPT
                             !.consecutive_losses = s.runtime.consecutive_losses,
                             !.cooldown_until_epoch = s.runtime.cooldown_until_epoch,
                             !.open_positions = s.runtime.open_positions]
           /\ io' = [io EXCEPT
                        !.sent = Append(@, [kind |-> "exit", symbol |-> quotes[idx].symbol])]
    /\ UNCHANGED <<quotes, idx, trades>>
    /\ LoopAt("tick")

\* the except clause of tick(): self.runtime.fatal_error = str(exc)
FatalWritesError ==
    /\ pc = "tick" /\ runtime.enabled
    /\ LET s == on_fatal([Here EXCEPT !.err = "sqlite3.Error: insert_signal"])
       IN  runtime' = [runtime EXCEPT !.fatal_error = s.runtime.fatal_error]
    /\ UNCHANGED <<quotes, idx, trades, io>>
    /\ LoopAt("fatal")

\* the except clause of tick(): self.runtime.enabled = False, and the notification
FatalWritesEnabled ==
    /\ pc = "fatal"
    /\ LET s == on_fatal([Here EXCEPT !.err = runtime.fatal_error])
       IN  /\ runtime' = [runtime EXCEPT !.enabled = s.runtime.enabled]
           /\ io' = s.io
    /\ UNCHANGED <<quotes, idx, trades>>
    /\ LoopAt("tick")

\* heartbeat() evaluates the next entry of its dict; the last one ends the call
HeartbeatRead ==
    LET field == HeartbeatFields[hb.at + 1]
        read == [hb.read EXCEPT ![field] = HeartbeatValue(runtime, field)]
    IN  /\ IF hb.at + 1 = Len(HeartbeatFields)
           THEN /\ returned' = <<read>>
                /\ hb' = [hb EXCEPT !.at = 0, !.read = HeartbeatDict(EngineRuntime)]
           ELSE /\ returned' = returned
                /\ hb' = [hb EXCEPT !.at = @ + 1, !.read = read]
        /\ UNCHANGED <<runtime, config, env, now, pc, status, quotes, idx, trades, io, kis,
                       issued>>

InitHeartbeat ==
    /\ runtime = [EngineRuntime EXCEPT !.enabled = TRUE]
    /\ config = DryRunConfig
    /\ env = Env(<<>>, TRUE, FALSE)
    /\ now = 0
    /\ pc = "tick"
    /\ status = TRUE
    /\ quotes = <<>>
    /\ idx = 0
    /\ trades = <<>>
    /\ io = EmptyLog
    /\ returned = <<>>
    /\ kis = KISClient
    /\ issued = <<>>
    /\ hb = [at |-> 0, read |-> HeartbeatDict(EngineRuntime),
             instants |-> {HeartbeatDict(runtime)}]

NextHeartbeat ==
    \/ EntryWritesPosition
    \/ EntryWritesCount
    \/ ExitWritesLoss
    \/ ExitWritesRest
    \/ FatalWritesError
    \/ FatalWritesEnabled
    \/ HeartbeatRead

SpecHeartbeat == InitHeartbeat /\ [][NextHeartbeat]_vars

----------------------------------------------------------------------------
(* Two threads inside _get_access_token() of one KISClient in LIVE mode:    *)
(* the trading loop and an operator's manual call.  The method takes no     *)
(* lock, so it is taken statement by statement: the test of the cache, the  *)
(* token request, self._token = ..., self._token_expire_at = ..., return    *)
(* self._token.  pc[c] is the frame of caller c: where it stands and the    *)
(* data of the answer it holds.  kis carries _token beside                  *)
(* _token_expire_at, issued the callers the endpoint issued a token to (the *)
(* k-th token is k), returned the calls that ended.  Time stands still, so  *)
(* a cached token stays valid.                                              *)

Callers == {"tick", "manual"}

Idle == [at |-> "idle", data |-> <<>>]

\* calls begun so far
Begun == Len(returned) + Cardinality({c \in Callers : pc[c].at # "idle"})

\* if self._token and self._token_expire_at and datetime.utcnow() < self._token_expire_at
TokenValid(client, t) ==
    /\ client.token # <<>>
    /\ client.token_expire_at # <<>>
    /\ t < client.token_expire_at[1]

Ends(c, token, raised) ==
    /\ returned' = Append(returned, [by |-> c, token |-> token, raised |-> raised])
    /\ pc' = [pc EXCEPT ![c] = Idle]

\* the call begins: the cached token is returned, or the caller goes on to request one
TokenCheck(c) ==
    /\ pc[c].at = "idle"
    /\ Begun < MaxCalls
    /\ IF TokenValid(kis, now)
       THEN Ends(c, kis.token, FALSE)
       ELSE pc' = [pc EXCEPT ![c].at = "post"] /\ returned' = returned
    /\ UNCHANGED <<runtime, config, env, now, status, quotes, idx, trades, io, kis, issued, hb>>

\* requests.post(.../oauth2/tokenP) and the test of its answer
TokenPost(c) ==
    /\ pc[c].at = "post"
    /\ \E answer \in {a \in TokenAnswers :
                        a[1] = "ok" => \A other \in TokenLifetimes : other <= a[2]} :
         LET got == _get_access_token(KISClient, now, answer)
         IN  /\ io' = [io EXCEPT !.token_requests = @ \o got.requests]
             /\ IF got.raised
                THEN Ends(c, <<>>, TRUE) /\ issued' = issued
                ELSE /\ issued' = Append(issued, c)
                     /\ pc' = [pc EXCEPT ![c] = [at |-> "store_token",
                                                 data |-> <<Len(issued) + 1,
                                                            got.kis.token_expire_at[1]>>]]
                     /\ returned' = returned
    /\ UNCHANGED <<runtime, config, env, now, status, quotes, idx, trades, kis, hb>>

\* self._token = data["access_token"]
TokenStore(c) ==
    /\ pc[c].at = "store_token"
    /\ kis' = [kis EXCEPT !.token = <<pc[c].data[1]>>]
    /\ pc' = [pc EXCEPT ![c].at = "store_expiry"]
    /\ UNCHANGED <<runtime, config, env, now, status, quotes, idx, trades, io, returned, issued,
                   hb>>

\* self._token_expire_at = datetime.utcnow() + timedelta(seconds=max(60, expires_sec - 60))
TokenStoreExpiry(c) ==
    /\ pc[c].at = "store_expiry"
    /\ kis' = [kis EXCEPT !.token_expire_at = <<pc[c].data[2]>>]
    /\ pc' = [pc EXCEPT ![c].at = "return"]
    /\ UNCHANGED <<runtime, config, env, now, status, quotes, idx, trades, io, returned, issued,
                   hb>>

\* return self._token
TokenReturn(c) ==
    /\ pc[c].at = "return"
    /\ Ends(c, kis.token, FALSE)
    /\ UNCHANGED <<runtime, config, env, now, status, quotes, idx, trades, io, kis, issued, hb>>

InitFlight ==
    /\ runtime = EngineRuntime
    /\ config = LiveConfig
    /\ env = Env(<<>>, TRUE, FALSE)
    /\ now = 0
    /\ pc = [c \in Callers |-> Idle]
    /\ status = TRUE
    /\ quotes = <<>>
    /\ idx = 0
    /\ trades = <<>>
    /\ io = EmptyLog
    /\ returned = <<>>
    /\ kis = KISClient @@ [token |-> <<>>]
    /\ issued = <<>>
    /\ hb = Heartbeat

NextFlight ==
    \E c \in Callers :
        \/ TokenCheck(c)
        \/ TokenPost(c)
        \/ TokenStore(c)
        \/ TokenStoreExpiry(c)
        \/ TokenReturn(c)

SpecFlight == InitFlight /\ [][NextFlight]_vars

----------------------------------------------------------------------------
(* StageStrategy(config).evaluate(q) called directly, as run_manual_diagnosis *)
(* and tick() do, on two quotes that differ in volatility_pct only, under    *)
(* configurations that differ in weights and thresholds.                     *)

ScoreVolatilities == {50, 60, 100, 120, 190, 200, 220}

ScoreProfiles ==
    [volume_ratio : {100, 300}, execution_strength : {9000, 12000},
     spread_pct : {50, 100, 150}, trend_slope : {-20, 40}]

ScoreQuote(p, volatility_pct) ==
    [symbol |-> Universe[1], price |-> 70000, volume_ratio |-> p.volume_ratio,
     volatility_pct |-> volatility_pct, execution_strength |-> p.execution_strength,
     spread_pct |-> p.spread_pct, trend_slope |-> p.trend_slope]

\* scoring_weights as shipped, with a heavy trigger stage, and with a
\* trigger stage of weight 0
ScoreWeights ==
    {Weights,
     [universe |-> 10, pre_breakout |-> 25, trigger |-> 40, confirmation |-> 25],
     [universe |-> 35, pre_breakout |-> 30, trigger |-> 0, confirmation |-> 35]}

\* stage thresholds as shipped; trigger zones above the quotes' volatility;
\* a universe spread limit below the confirmation one; trigger zones in
\* descending order
ScoreStages ==
    {Stages,
     [Stages EXCEPT !.trigger = [breakout_zone_1_pct |-> 250, breakout_zone_2_pct |-> 300,
                                 breakout_zone_3_pct |-> 400]],
     [Stages EXCEPT !.universe.max_spread_pct = 80, !.confirmation.spread_pct_max = 120],
     [Stages EXCEPT !.trigger = [breakout_zone_1_pct |-> 200, breakout_zone_2_pct |-> 120,
                                 breakout_zone_3_pct |-> 60]]}

Evaluate ==
    /\ returned = <<>>
    /\ returned' = [i \in DOMAIN quotes |-> evaluate(config, quotes[i])]
    /\ UNCHANGED <<runtime, config, env, now, pc, status, quotes, idx, trades, io, kis, issued, hb>>

InitScore ==
    /\ runtime = EngineRuntime
    /\ \E weights \in ScoreWeights, stages \in ScoreStages :
         config = [DryRunConfig EXCEPT !.scoring_weights = weights, !.stages = stages]
    /\ env = Env(<<>>, TRUE, FALSE)
    /\ now = 0
    /\ pc = "sleeping"
    /\ status = FALSE
    /\ \E p \in ScoreProfiles, v1 \in ScoreVolatilities, v2 \in ScoreVolatilities :
         quotes = <<ScoreQuote(p, v1), ScoreQuote(p, v2)>>
    /\ idx = 0
    /\ trades = <<>>
    /\ io = EmptyLog
    /\ returned = <<>>
    /\ kis = KISClient
    /\ issued = <<>>
    /\ hb = Heartbeat

NextScore == Evaluate

SpecScore == InitScore /\ [][NextScore]_vars

----------------------------------------------------------------------------
(* risk_check_detail() called directly on an engine in any risk state, as  *)
(* tests/test_engine_manual.py does after setting runtime.daily_trades     *)

RiskTrades == 0..3
RiskLosses == {0, -3100, -12000, -12200}
RiskCooldowns == {0, 240}
RiskOrderCaps == {<<"unset", 0>>, <<"legacy", 2>>, <<"set", 0>>, <<"set", 2>>}
RiskLossCaps == {0, 12000}
RiskLossPcts == {0, 250}
RiskEquities == {0, 400000}
RiskOverrides == {<<>>, <<1000000>>}

\* risk_limits with max_orders_per_day absent ("unset"), absent with the older
\* key max_daily_trades present ("legacy"), or set
RiskConfig(cap, loss_cap, loss_pct, equity) ==
    LET base == [RiskLimits EXCEPT !.max_daily_loss_krw = loss_cap,
                                   !.max_daily_loss_pct = loss_pct,
                                   !.equity_base_krw = equity]
        risk == IF cap[1] = "unset" THEN Remove(base, "max_orders_per_day")
                ELSE IF cap[1] = "legacy"
                THEN Remove(base, "max_orders_per_day") @@ [max_daily_trades |-> cap[2]]
                ELSE [base EXCEPT !.max_orders_per_day = cap[2]]
    IN  [mode |-> "DRY-RUN", scan_interval_seconds |-> 60, risk_limits |-> risk,
         scoring_weights |-> Weights, stages |-> Stages]

RiskCheck ==
    /\ returned = <<>>
    /\ returned' = <<risk_check_detail(config, env, runtime, now)>>
    /\ UNCHANGED <<runtime, config, env, now, pc, status, quotes, idx, trades, io, kis, issued, hb>>

InitRisk ==
    /\ \E n \in RiskTrades, l \in RiskLosses, c \in RiskCooldowns :
         runtime = [EngineRuntime EXCEPT !.daily_trades = n, !.daily_loss_krw = l,
                                         !.cooldown_until_epoch = c]
    /\ \E cap \in RiskOrderCaps, k \in RiskLossCaps, p \in RiskLossPcts, q \in RiskEquities :
         config = RiskConfig(cap, k, p, q)
    /\ \E o \in RiskOverrides : env = Env(o, TRUE, FALSE)
    /\ now = 120
    /\ pc = "sleeping"
    /\ status = FALSE
    /\ quotes = <<>>
    /\ idx = 0
    /\ trades = <<>>
    /\ io = EmptyLog
    /\ returned = <<>>
    /\ kis = KISClient
    /\ issued = <<>>
    /\ hb = Heartbeat

NextRisk == RiskCheck

SpecRisk == InitRisk /\ [][NextRisk]_vars

----------------------------------------------------------------------------
(* Properties *)

\* the limits as the properties name them
MaxOrdersPerDay ==
    LET risk == config.risk_limits
    IN  IF "max_orders_per_day" \in DOMAIN risk THEN risk.max_orders_per_day
        ELSE IF "max_daily_trades" \in DOMAIN risk THEN risk.max_daily_trades
        ELSE 0
EquityBase ==
    IF env.AUTOTRADE_EQUITY_BASE_KRW # <<>> THEN env.AUTOTRADE_EQUITY_BASE_KRW[1]
    ELSE config.risk_limits.equity_base_krw
CountDenies == MaxOrdersPerDay > 0 /\ runtime.daily_trades >= MaxOrdersPerDay
LossDenies ==
    /\ config.risk_limits.max_daily_loss_krw > 0
    /\ runtime.daily_loss_krw <= -config.risk_limits.max_daily_loss_krw
PctDenies ==
    /\ config.risk_limits.max_daily_loss_pct > 0
    /\ EquityBase > 0
    /\ Abs(runtime.daily_loss_krw) * 10000 >= config.risk_limits.max_daily_loss_pct * EquityBase
CooldownActive == runtime.cooldown_until_epoch > now

\* C1: checkAdmission returns the denial of the first failing check in the
\* order count cap, absolute loss cap, percentage loss cap, cooldown, and
\* allows only if none fails; a count denial names dailyTradeCount and
\* maxOrdersPerDay whatever the loss and cooldown fields are; a cap of 0 (or
\* an equity base of 0 for the percentage check) skips its check.
C1_FirstFailingCheckWins ==
    returned # <<>> =>
        LET r == returned[1]
        IN  /\ r.ok = ~(CountDenies \/ LossDenies \/ PctDenies \/ CooldownActive)
            /\ CountDenies => r.reason = Reason("count", <<runtime.daily_trades, MaxOrdersPerDay>>)
            /\ ~CountDenies /\ LossDenies => r.reason.kind = "loss_krw"
            /\ ~CountDenies /\ ~LossDenies /\ PctDenies => r.reason.kind = "loss_pct"
            /\ ~CountDenies /\ ~LossDenies /\ ~PctDenies /\ CooldownActive
                   => r.reason.kind = "cooldown"
            /\ r.ok => r.reason.kind = "ok"

\* the count cap, the loss cap and the cooldown all fail, and the count denial is returned
C1_Witness ==
    /\ returned # <<>>
    /\ CountDenies /\ LossDenies /\ PctDenies /\ CooldownActive
    /\ ~returned[1].ok
    /\ returned[1].reason = Reason("count", <<2, 2>>)

----------------------------------------------------------------------------
(* The engine loop: vocabulary of the properties below *)

Held == DOMAIN runtime.open_positions

Symbols == {Universe[i] : i \in DOMAIN Universe}

\* the rows of the trade store that are open for a symbol
OpenRows(sym) == {i \in DOMAIN trades : trades[i].symbol = sym /\ trades[i].status = "OPEN"}

\* the notifications of one kind in a tick's log
Sent(log, kind) == {i \in DOMAIN log.sent : log.sent[i].kind = kind}

\* the orders of one side in a tick's log
Orders(log, side) == {i \in DOMAIN log.orders : log.orders[i].side = side}

\* this step submits an order
Submits == Len(io'.orders) > Len(io.orders)

\* the order this step submits
Submitted == io'.orders[Len(io'.orders)]

\* the risk state apart from the two fields the except clause writes
RiskFields(rt) == [rt EXCEPT !.enabled = FALSE, !.fatal_error = "None"]

\* C2: at most one open position exists per symbol (one open row of the
\* trade store, the one the position names), and the entry step for a symbol
\* that is already held submits no order and changes neither the positions,
\* the counters, the trade store nor the notifications.
C2_HeldSymbolNotEnteredAgain ==
    /\ [](\A sym \in Symbols :
            /\ Cardinality(OpenRows(sym)) <= 1
            /\ sym \in Held => OpenRows(sym) = {runtime.open_positions[sym].trade_id}
            /\ sym \notin Held => OpenRows(sym) = {})
    /\ [][(pc = "scoring" /\ quotes[idx].symbol \in Held) =>
            /\ io'.orders = io.orders
            /\ trades' = trades
            /\ RiskFields(runtime') = RiskFields(runtime)
            /\ Sent(io', "entry") = Sent(io, "entry")]_vars

\* a passed quote of a symbol held since an earlier tick went through the
\* entry step with the market open, and no BUY was submitted for it
C2_Witness ==
    /\ pc = "exits" /\ idx = 1 /\ status
    /\ \E i \in DOMAIN quotes :
         /\ evaluate(config, quotes[i]).passed
         /\ quotes[i].symbol \in Held
         /\ \A j \in DOMAIN io.orders : io.orders[j].symbol # quotes[i].symbol
         /\ Len(io.signals) = Len(quotes)
    /\ Len(trades) = 1

\* C3: a failure raised in an enabled tick (by the fetch, the recording of a
\* signal, an entry or an exit) ends the tick with enabled false, fatal_error
\* equal to the failure text and exactly one fatal notification carrying it,
\* and tick() returns to the loop instead of raising.
C3_FailureDisablesEngine ==
    [][(pc \in {"ready", "scoring", "exits"} /\ io'.raised # "None") =>
            /\ runtime.enabled
            /\ pc' = "sleeping"
            /\ ~runtime'.enabled
            /\ runtime'.fatal_error = io'.raised
            /\ Cardinality(Sent(io', "fatal")) = 1
            /\ \A i \in Sent(io', "fatal") : io'.sent[i].symbol = io'.raised]_vars

\* a tick failed after it had recorded a signal and submitted an order
C3_Witness ==
    /\ pc = "sleeping"
    /\ io.raised # "None"
    /\ Len(io.signals) > 0 /\ Len(io.orders) > 0
    /\ ~runtime.enabled
    /\ runtime.fatal_error = io.raised
    /\ Cardinality(Sent(io, "fatal")) = 1

\* C4: while the engine is disabled, the only step that enables it is
\* enable(true); and a tick of the engine disabled by a failure fetches
\* nothing, records no signal and submits no order, and leaves it disabled.
C4_FatalIsTerminal ==
    [][~runtime.enabled =>
            /\ runtime'.enabled =>
                 /\ pc = "sleeping"
                 /\ runtime' = [runtime EXCEPT !.enabled = TRUE]
                 /\ UNCHANGED <<config, env, now, pc, status, quotes, idx, trades, io, returned,
                                kis, issued, hb>>
            /\ (runtime.fatal_error # "None" /\ pc = "ready") =>
                 /\ io'.fetches = 0 /\ io'.signals = <<>> /\ io'.orders = <<>>
                 /\ ~runtime'.enabled
                 /\ runtime'.fatal_error = runtime.fatal_error]_vars

\* the engine failed in a tick after a trade had been opened, and at the last
\* tick of the run it is still down and the tick did nothing
C4_Witness ==
    /\ pc = "sleeping"
    /\ runtime.fatal_error # "None" /\ ~runtime.enabled
    /\ io = EmptyLog
    /\ now = MaxCycles * SleepSeconds(config)
    /\ Len(trades) > 0

\* C5: the engine starts disabled, and a tick of a disabled engine fetches
\* nothing, records no signal, submits no order, sends no notification and
\* leaves the risk state, the open positions and the trade store unchanged.
C5_DisabledTickIsNoOp ==
    /\ ~runtime.enabled
    /\ [][(pc = "ready" /\ ~runtime.enabled) =>
            /\ pc' = "sleeping"
            /\ io' = EmptyLog
            /\ runtime' = runtime
            /\ trades' = trades]_vars

\* the engine was turned off while it held a position and has ticked since:
\* with one trade, no loss and no cooldown neither gate can have skipped the
\* tick, so the empty log is the one of a disabled tick
C5_Witness ==
    /\ pc = "sleeping"
    /\ ~runtime.enabled /\ runtime.fatal_error = "None"
    /\ Held # {}
    /\ runtime.daily_trades = 1 /\ runtime.daily_loss_krw = 0
    /\ runtime.cooldown_until_epoch = 0
    /\ io = EmptyLog

\* C6: an enabled tick that starts in an active cooldown, or with one of the
\* admission checks failing, skips the cycle: no fetch, no signal, no order,
\* no notification, risk state, open positions and trade store unchanged.
C6_GatedTickSkipsCycle ==
    [][(/\ pc = "ready"
        /\ runtime.enabled
        /\ CooldownActive \/ CountDenies \/ LossDenies \/ PctDenies) =>
            /\ pc' = "sleeping"
            /\ io'.fetches = 0 /\ io'.signals = <<>> /\ io'.orders = <<>> /\ io'.sent = <<>>
            /\ runtime' = runtime
            /\ trades' = trades]_vars

\* an enabled engine holding a position was denied by the admission check
\* (the denial is logged) and the tick did nothing
C6_Witness ==
    /\ pc = "sleeping"
    /\ runtime.enabled
    /\ Len(io.warnings) = 1
    /\ io.fetches = 0 /\ io.orders = <<>>
    /\ Held # {}

\* C7: no order of either side is submitted while the cooldown is active.
C7_NoOrderDuringCooldown ==
    [][Submits => ~CooldownActive]_vars

\* C8: a tick that got past the gates with the market status forbidding
\* orders has recorded one signal per fetched quote, with the verdict of the
\* evaluation, and has submitted no BUY and opened no position.
C8_ClosedMarketScoresButNeverBuys ==
    (/\ pc \in {"exits", "sleeping"}
     /\ io.fetches = 1 /\ io.raised = "None"
     /\ ~status) =>
        /\ Len(io.signals) = Len(quotes)
        /\ \A i \in DOMAIN quotes :
             /\ io.signals[i].symbol = quotes[i].symbol
             /\ io.signals[i].total_score = evaluate(config, quotes[i]).total_score
             /\ io.signals[i].pass_fail = "PASS" <=> evaluate(config, quotes[i]).passed
        /\ Orders(io, "BUY") = {}
        /\ Sent(io, "entry") = {}

\* with the market closed a passed quote of a symbol that is not held was
\* recorded and nothing was bought
C8_Witness ==
    /\ pc = "sleeping"
    /\ io.fetches = 1 /\ io.raised = "None"
    /\ ~status
    /\ Len(io.signals) = Len(quotes)
    /\ \E i \in DOMAIN quotes :
         /\ io.signals[i].pass_fail = "PASS"
         /\ quotes[i].symbol \notin Held
    /\ Cardinality(Held) < config.risk_limits.max_positions

\* C9: an entry step either records the position (with its trade row, the
\* counter plus one and an entry notification) or leaves positions, counter
\* and trade store as they were; it records only after a BUY that returned
\* SIMULATED or FILLED, and always after one unless the store fails; after a
\* BUY that returned anything else nothing is recorded.
C9_EntryOnlyOnFilledBuy ==
    [][pc = "scoring" =>
        LET sym == quotes[idx].symbol
            filled == Submits /\ Submitted.side = "BUY" /\ Submitted.status \in Ok
            entered ==
                /\ sym \notin Held
                /\ DOMAIN runtime'.open_positions = Held \cup {sym}
                /\ runtime'.open_positions[sym] =
                       [trade_id |-> Len(trades'), entry_price |-> Submitted.price,
                        qty |-> Submitted.qty]
                /\ \A other \in Held : runtime'.open_positions[other] = runtime.open_positions[other]
                /\ runtime'.daily_trades = runtime.daily_trades + 1
                /\ trades' = open_trade(trades, sym, Submitted.qty, Submitted.price)
                /\ Cardinality(Sent(io', "entry")) = Cardinality(Sent(io, "entry")) + 1
            untouched ==
                /\ runtime'.open_positions = runtime.open_positions
                /\ runtime'.daily_trades = runtime.daily_trades
                /\ trades' = trades
                /\ Sent(io', "entry") = Sent(io, "entry")
        IN  /\ entered \/ untouched
            /\ entered => filled
            /\ (filled /\ io'.raised = "None") => entered
            /\ (Submits /\ Submitted.status \notin Ok) => untouched]_vars

\* in one tick a BUY came back FILLED and its symbol is held, and another
\* came back BLOCKED and its symbol is not
C9_Witness ==
    /\ pc \in {"exits", "sleeping"}
    /\ \E i, j \in Orders(io, "BUY") :
         /\ io.orders[i].status = "BLOCKED" /\ io.orders[i].symbol \notin Held
         /\ io.orders[j].status = "FILLED" /\ io.orders[j].symbol \in Held
    /\ runtime.daily_trades = 1
    /\ Len(trades) = 1

\* C10: an exit step either closes the position (removes it, closes its trade
\* row, adds the realized loss, updates the streak and notifies) or leaves
\* positions, trade store, loss, streak and cooldown as they were; it closes
\* only after a SELL that returned SIMULATED or FILLED, and always after one
\* unless the store fails; after a BLOCKED SELL the position stays open.
C10_ExitOnlyOnFilledSell ==
    [][pc = "exits" =>
        LET sym == quotes[idx].symbol
            pos == runtime.open_positions[sym]
            pnl == (Submitted.price - pos.entry_price) * pos.qty - Fee
            filled == Submits /\ Submitted.side = "SELL" /\ Submitted.status \in Ok
            closed ==
                /\ sym \in Held
                /\ runtime'.open_positions = Remove(runtime.open_positions, sym)
                /\ trades' = close_trade(trades, pos.trade_id, Submitted.price, Fee)
                /\ trades'[pos.trade_id].status = "CLOSED"
                /\ trades'[pos.trade_id].pnl = pnl
                /\ runtime'.daily_loss_krw = runtime.daily_loss_krw + Min(0, pnl)
                /\ runtime'.consecutive_losses =
                       IF pnl < 0 THEN runtime.consecutive_losses + 1 ELSE 0
                /\ Cardinality(Sent(io', "exit")) = Cardinality(Sent(io, "exit")) + 1
            untouched ==
                /\ runtime'.open_positions = runtime.open_positions
                /\ trades' = trades
                /\ runtime'.daily_loss_krw = runtime.daily_loss_krw
                /\ runtime'.consecutive_losses = runtime.consecutive_losses
                /\ runtime'.cooldown_until_epoch = runtime.cooldown_until_epoch
                /\ Sent(io', "exit") = Sent(io, "exit")
        IN  /\ closed \/ untouched
            /\ closed => filled
            /\ (filled /\ io'.raised = "None") => closed
            /\ (Submits /\ Submitted.status \notin Ok) => (untouched /\ sym \in DOMAIN runtime'.open_positions)]_vars

\* a SELL came back BLOCKED and the position is still open, with no loss fed
C10_Witness ==
    /\ pc \in {"exits", "sleeping"}
    /\ \E i \in Orders(io, "SELL") :
         /\ io.orders[i].status = "BLOCKED"
         /\ io.orders[i].symbol \in Held
    /\ runtime.daily_loss_krw = 0 /\ runtime.consecutive_losses = 0
    /\ runtime.cooldown_until_epoch = 0

\* the exit rule on prices: the quote is at or below entry * (1 - stop/100)
\* or at or above entry * (1 + take/100), thresholds in hundredths of a percent
ExitDue(price, entry_price, exit_cfg) ==
    \/ price * 10000 <= entry_price * (10000 - exit_cfg.stop_loss_pct)
    \/ price * 10000 >= entry_price * (10000 + exit_cfg.take_profit_pct)

\* C11: the exit step of a held symbol submits a SELL of the held quantity if
\* and only if the quote's change against the entry price is at or beyond the
\* stop-loss or the take-profit threshold (entered at 70000 with 1.8 and 4.2:
\* 68700 and the boundary 68740 exit, 69000 does not); the step of a symbol
\* that is not held submits nothing.
C11_ExitIffThresholdCrossed ==
    [][pc = "exits" =>
        LET q == quotes[idx]
            pos == runtime.open_positions[q.symbol]
        IN  IF q.symbol \in Held
            THEN /\ Submits <=> ExitDue(q.price, pos.entry_price, config.stages.exit)
                 /\ Submits => /\ Submitted.side = "SELL"
                               /\ Submitted.symbol = q.symbol
                               /\ Submitted.qty = pos.qty
                               /\ Submitted.price = q.price
                 /\ (pos.entry_price = 70000 /\ config.stages.exit.stop_loss_pct = 180
                        /\ q.price \in {68700, 68740}) => Submits
                 /\ (pos.entry_price = 70000 /\ config.stages.exit.stop_loss_pct = 180
                        /\ config.stages.exit.take_profit_pct = 420
                        /\ q.price = 69000) => ~Submits
            ELSE ~Submits]_vars

\* both symbols were held at 70000: the one quoted at the stop-loss boundary
\* 68740 was sold, the one quoted at 69000 was not and is still held
C11_Witness ==
    /\ pc = "sleeping"
    /\ io.raised = "None"
    /\ Len(quotes) = 2
    /\ quotes[1].price = 68740 /\ quotes[2].price = 69000
    /\ Orders(io, "SELL") # {}
    /\ \A i \in Orders(io, "SELL") : io.orders[i].symbol = quotes[1].symbol /\ io.orders[i].price = 68740
    /\ Held = {quotes[2].symbol}
    /\ runtime.open_positions[quotes[2].symbol].entry_price = 70000

\* C12: the loss accumulator is never positive; an exit step that realizes
\* an exit (the position is gone) with pnl = (exit price - entry price) * qty
\* - 500 adds min(0, pnl) to it and makes the streak one longer when pnl < 0,
\* zero otherwise; an exit step never changes the trade counter, and one
\* that realizes nothing changes neither accumulator nor streak.
C12_ExitFeedsLossAndStreak ==
    /\ [](runtime.daily_loss_krw <= 0)
    /\ [][pc = "exits" =>
            LET sym == quotes[idx].symbol
                realized == sym \in Held /\ sym \notin DOMAIN runtime'.open_positions
                pos == runtime.open_positions[sym]
                pnl == (quotes[idx].price - pos.entry_price) * pos.qty - 500
            IN  /\ runtime'.daily_trades = runtime.daily_trades
                /\ IF realized
                   THEN /\ runtime'.daily_loss_krw =
                              runtime.daily_loss_krw + (IF pnl < 0 THEN pnl ELSE 0)
                        /\ runtime'.consecutive_losses =
                              IF pnl < 0 THEN runtime.consecutive_losses + 1 ELSE 0
                   ELSE /\ runtime'.daily_loss_krw = runtime.daily_loss_krw
                        /\ runtime'.consecutive_losses = runtime.consecutive_losses]_vars

\* after two losing exits, one cycle realized a winning exit and then a
\* losing one: the gain left the accumulator alone and reset the streak, the
\* loss was added and counts as a streak of one
C12_Witness ==
    /\ pc = "sleeping"
    /\ Len(trades) = 4
    /\ trades[3].status = "CLOSED" /\ trades[3].pnl > 0
    /\ trades[4].status = "CLOSED" /\ trades[4].pnl < 0
    /\ runtime.daily_loss_krw = trades[1].pnl + trades[2].pnl + trades[4].pnl
    /\ runtime.consecutive_losses = 1
    /\ runtime.daily_trades = 4

\* C13: a step changes cooldown_until_epoch only by realizing an exit after
\* which the streak has reached cooldown_after_consecutive_losses, and then
\* sets it to now + cooldown_minutes * 60; every other step, entries and
\* exits with pnl >= 0 under a threshold >= 1 included, leaves it alone.  The
\* streak counts losing exits whatever their symbol.
C13_CooldownStartsWhenStreakReachesThreshold ==
    [][LET risk == config.risk_limits
           sym == quotes[idx].symbol
           realized == /\ pc = "exits"
                       /\ sym \in Held
                       /\ sym \notin DOMAIN runtime'.open_positions
           pos == runtime.open_positions[sym]
           pnl == (quotes[idx].price - pos.entry_price) * pos.qty - 500
       IN  /\ IF realized /\ runtime'.consecutive_losses >= risk.cooldown_after_consecutive_losses
              THEN runtime'.cooldown_until_epoch = now + risk.cooldown_minutes * 60
              ELSE runtime'.cooldown_until_epoch = runtime.cooldown_until_epoch
           /\ (realized /\ pnl >= 0 /\ risk.cooldown_after_consecutive_losses >= 1)
                 => runtime'.cooldown_until_epoch = runtime.cooldown_until_epoch]_vars

\* threshold 3: after two losing exits of 005930, a losing exit of 000660
\* made the streak 3 and started the cooldown
C13_Witness ==
    /\ pc = "sleeping"
    /\ config.risk_limits.cooldown_after_consecutive_losses = 3
    /\ Len(trades) = 3
    /\ trades[1].symbol = Universe[1] /\ trades[2].symbol = Universe[1]
    /\ trades[3].symbol = Universe[2] /\ trades[3].status = "CLOSED" /\ trades[3].pnl < 0
    /\ runtime.consecutive_losses = 3
    /\ runtime.cooldown_until_epoch = now + config.risk_limits.cooldown_minutes * 60

\* C14: the number of open positions never exceeds max_positions, and the
\* entry step taken with max_positions symbols already held submits no
\* order and changes neither positions, trade counter nor trade store.
C14_PositionsNeverExceedMax ==
    /\ [](Cardinality(Held) <= config.risk_limits.max_positions)
    /\ [][(pc = "scoring" /\ Cardinality(Held) >= config.risk_limits.max_positions) =>
            /\ ~Submits
            /\ runtime'.open_positions = runtime.open_positions
            /\ runtime'.daily_trades = runtime.daily_trades
            /\ trades' = trades]_vars

\* max_positions is 1 and the first symbol is held: the second symbol's
\* quote passed, at a price within the budget, with the market open, and
\* the scoring loop ended without a BUY
C14_Witness ==
    /\ pc = "exits" /\ idx = 1
    /\ status
    /\ config.risk_limits.max_positions = 1
    /\ Held = {Universe[1]}
    /\ evaluate(config, quotes[2]).passed
    /\ quotes[2].price <= config.risk_limits.max_buy_amount_per_trade_krw
    /\ Len(io.signals) = 2
    /\ io.orders = <<>>

\* C15: a BUY submitted by the entry step, and a position it records, is for
\* the largest quantity q >= 1 with q * price <= max_buy_amount_per_trade_krw
\* at the quote's price; for a price above that budget the step submits
\* nothing and changes no position, counter, trade row or notification.
C15_QuantityWithinBudget ==
    [][pc = "scoring" =>
        LET q == quotes[idx]
            budget == config.risk_limits.max_buy_amount_per_trade_krw
            Fits(qty) == /\ qty >= 1
                         /\ qty * q.price <= budget
                         /\ (qty + 1) * q.price > budget
        IN  /\ Submits => /\ Submitted.side = "BUY"
                          /\ Submitted.symbol = q.symbol
                          /\ Submitted.price = q.price
                          /\ Fits(Submitted.qty)
            /\ (q.symbol \notin Held /\ q.symbol \in DOMAIN runtime'.open_positions) =>
                          /\ runtime'.open_positions[q.symbol].entry_price = q.price
                          /\ Fits(runtime'.open_positions[q.symbol].qty)
                          /\ trades'[Len(trades')].qty = runtime'.open_positions[q.symbol].qty
            /\ q.price > budget =>
                          /\ ~Submits
                          /\ RiskFields(runtime') = RiskFields(runtime)
                          /\ trades' = trades
                          /\ io'.sent = io.sent \/ io'.raised # "None"]_vars

\* with the market open both quotes passed: the one priced at the whole
\* budget was bought, one share; the one priced above it was not
C15_Witness ==
    /\ pc = "exits" /\ idx = 1
    /\ status
    /\ quotes[1].price = 150000 /\ quotes[2].price = 160000
    /\ evaluate(config, quotes[1]).passed /\ evaluate(config, quotes[2]).passed
    /\ Len(io.orders) = 1
    /\ io.orders[1].side = "BUY" /\ io.orders[1].qty = 1 /\ io.orders[1].price = 150000
    /\ Held = {quotes[1].symbol}
    /\ config.risk_limits.max_positions = 2

\* the two hard gates as the quote and the thresholds decide them
PreBreakoutPasses(cfg, q) ==
    /\ q.volume_ratio >= cfg.stages.pre_breakout.volume_spike_ratio_min
    /\ q.volatility_pct >= cfg.stages.pre_breakout.intraday_volatility_pct_min
ConfirmationPasses(cfg, q) ==
    /\ q.execution_strength >= cfg.stages.confirmation.execution_strength_min
    /\ q.spread_pct <= cfg.stages.confirmation.spread_pct_max
    /\ q.trend_slope >= cfg.stages.confirmation.trend_slope_min

\* the sum of the four stage scores of a result, in hundredths
StageSum(r) ==
    r.stage_scores.universe + r.stage_scores.pre_breakout
        + r.stage_scores.trigger + r.stage_scores.confirmation

\* C16: the verdict is passed exactly when the four stage scores sum to 65
\* or more and the pre-breakout and the confirmation stage both pass; the
\* trigger stage only adds to the sum, so a result with a trigger score of 0
\* passes when the other three scores reach 65 and both gates pass.
C16_VerdictIsSumAndTwoGates ==
    \A i \in DOMAIN returned :
        LET r == returned[i]
            q == quotes[i]
            gates == PreBreakoutPasses(config, q) /\ ConfirmationPasses(config, q)
        IN  /\ r.total_score = StageSum(r)
            /\ r.stage_checks.pre_breakout.passed = PreBreakoutPasses(config, q)
            /\ r.stage_checks.confirmation.passed = ConfirmationPasses(config, q)
            /\ r.passed <=> (StageSum(r) >= 6500 /\ gates)
            /\ (r.stage_scores.trigger = 0 /\ StageSum(r) >= 6500 /\ gates) => r.passed

\* a quote below every trigger zone passed on the other three stages, 20 +
\* 25 + 25
C16_Witness ==
    /\ returned # <<>>
    /\ config.scoring_weights = Weights
    /\ returned[1].stage_scores.trigger = 0
    /\ returned[1].stage_checks.trigger.reason = "none"
    /\ returned[1].total_score = 7000
    /\ returned[1].passed

\* C17: a quote whose spread is above the universe stage's max_spread_pct
\* has a universe score of exactly 0 and a verdict of not passed, whatever
\* the weights and thresholds of the configuration.
C17_WideSpreadNeverPasses ==
    \A i \in DOMAIN returned :
        quotes[i].spread_pct > config.stages.universe.max_spread_pct =>
            /\ returned[i].stage_scores.universe = 0
            /\ ~returned[i].passed

\* the tier of the trigger stage a volatility reaches: the percentage of the
\* weight and the name of the zone
TriggerTier(cfg, volatility_pct) ==
    LET t == cfg.stages.trigger
    IN  CASE volatility_pct >= t.breakout_zone_3_pct -> <<100, "zone3">>
          [] volatility_pct < t.breakout_zone_3_pct /\ volatility_pct >= t.breakout_zone_2_pct
                -> <<75, "zone2">>
          [] volatility_pct < t.breakout_zone_3_pct /\ volatility_pct < t.breakout_zone_2_pct
                /\ volatility_pct >= t.breakout_zone_1_pct
                -> <<40, "zone1">>
          [] OTHER -> <<0, "none">>

\* C18: the trigger score is the weight times 1, 0.75, 0.4 or 0 according to
\* the first of zone 3, zone 2, zone 1 the volatility reaches, with the
\* reason naming that zone; of two quotes that differ in volatility only,
\* the one with the higher volatility never has the lower trigger score,
\* whatever the order of the zone thresholds.
C18_TriggerScoreTiersAreMonotonic ==
    returned # <<>> =>
        /\ \A i \in DOMAIN returned :
             LET tier == TriggerTier(config, quotes[i].volatility_pct)
             IN  /\ returned[i].stage_scores.trigger = config.scoring_weights.trigger * tier[1]
                 /\ returned[i].stage_checks.trigger.reason = tier[2]
        /\ quotes[1].volatility_pct <= quotes[2].volatility_pct
             => returned[1].stage_scores.trigger <= returned[2].stage_scores.trigger

\* weight 30, zones at 0.6, 1.2 and 2.0: a volatility of 1.0 scores 12
\* (zone 1), a volatility of 1.2 scores 22.5 (zone 2)
C18_Witness ==
    /\ returned # <<>>
    /\ config.scoring_weights = Weights /\ config.stages = Stages
    /\ quotes[1].volatility_pct = 100 /\ quotes[2].volatility_pct = 120
    /\ returned[1].stage_scores.trigger = 1200
    /\ returned[1].stage_checks.trigger.reason = "zone1"
    /\ returned[2].stage_scores.trigger = 2250
    /\ returned[2].stage_checks.trigger.reason = "zone2"

\* the call found a cached token whose expiry time was still ahead
FoundValidToken(call) == call.cached # <<>> /\ call.at < call.cached[1]

\* the successful ones among the token requests of a call
Fetched(call) == {k \in DOMAIN call.requests : call.requests[k].ok}

C20_TokenFetchedOnlyWhenDue ==
    [][(pc = "ready" /\ io'.token_requests # <<>>) => (issued = <<>> \/ now >= issued[1])]_vars

\* the token requests of the calls before call i, oldest first
RECURSIVE RequestsBefore(_)
RequestsBefore(i) ==
    IF i <= 1 THEN <<>> ELSE RequestsBefore(i - 1) \o returned[i - 1].requests

\* the request that brought the token a call finds cached: the last successful one
TokenInUse(i) ==
    LET sent == RequestsBefore(i)
        k == CHOOSE k \in DOMAIN sent :
                 sent[k].ok /\ \A later \in DOMAIN sent : later > k => ~sent[later].ok
    IN  sent[k]

\* C21: a cached access token is never used at a time later than its nominal
\* expiry, fetch time + expires_in, whatever expires_in the endpoint returned,
\* and a call made with no token cached or within 60 seconds of the nominal
\* expiry fetches a new one.
C21_TokenNeverUsedPastNominalExpiry ==
    \A i \in DOMAIN returned :
        LET call == returned[i]
        IN  IF call.cached = <<>> THEN call.requests # <<>>
            ELSE LET token == TokenInUse(i)
                 IN  /\ call.requests = <<>> => call.at <= token.at + token.expires_in
                     /\ call.at >= token.at + token.expires_in - 60 => call.requests # <<>>

\* the call made and what came of it
TheCall == returned[1].call
TheResult == returned[1].result
TheAnswers == returned[1].answers
Called(op) == returned # <<>> /\ TheCall.op = op

\* C22: LIVE place_order with the market closed returns status BLOCKED on the
\* first attempt, without raising, without a retry, without a network call,
\* whether or not the credentials are set.
C22_ClosedMarketReturnsBlocked ==
    (Called("place_order") /\ ~TheCall.dry_run /\ ~TheCall.market)
        => /\ TheResult.status = "BLOCKED"
           /\ TheResult.error = "None"
           /\ TheResult.attempts = 1
           /\ TheResult.network = <<>>
           /\ TheResult.kis = [token_expire_at |-> TheCall.cached]

\* a blocked order of a LIVE client without credentials, tenacity installed
C22_Witness ==
    /\ Called("place_order") /\ ~TheCall.dry_run /\ ~TheCall.market
    /\ ~TheCall.env.credentials /\ TheCall.tenacity
    /\ TheResult.status = "BLOCKED"

\* attempt k sent the order-cash request
Dispatched(k) ==
    LET sent == TheResult.tried[k].network
    IN  sent # <<>> /\ sent[Len(sent)] = "order"

\* C23: a LIVE place_order whose order dispatch answers with status != 200
\* or rt_cd != "0" returns nothing and ends by raising KISError to the
\* caller; a dispatch answered with 200 and rt_cd = "0" returns FILLED with
\* the broker's fields rt_cd, msg1 and raw.
C23_FailedDispatchRaisesKISError ==
    Called("place_order") =>
        \A k \in DOMAIN TheResult.tried :
            Dispatched(k) =>
                IF TheAnswers[k].order \in {"http_error", "rejected"}
                THEN TheResult.error = "KISError" /\ TheResult.status = "RAISED"
                ELSE TheAnswers[k].order = "accepted" =>
                        /\ TheResult.error = "None" /\ TheResult.status = "FILLED"
                        /\ {"rt_cd", "msg1", "raw"} \subseteq TheResult.fields

\* C24: a LIVE gateway call (place_order with the market open, or
\* fetch_universe_quotes) made while a required credential is missing fails
\* fast: it ends with KISError on the first attempt, without a retry and
\* without a network call.
C24_MissingCredentialFailsFast ==
    (/\ returned # <<>>
     /\ ~TheCall.dry_run /\ ~TheCall.env.credentials
     /\ TheCall.op = "place_order" => TheCall.market)
        => /\ TheResult.error = "KISError"
           /\ TheResult.attempts = 1
           /\ TheResult.network = <<>>

\* C25: every fetch_universe_quotes or place_order call ends after at most 3
\* attempts: an attempt is followed by another only when it raised KISError,
\* an attempt that returned (SIMULATED, FILLED, BLOCKED, the quotes) ends the
\* call with that result, and a third failing attempt ends the call with an
\* exception.
C25_AtMostThreeAttempts ==
    returned # <<>> =>
        LET tried == TheResult.tried
            last == tried[Len(tried)]
        IN  /\ TheResult.attempts = Len(tried)
            /\ Len(tried) \in 1..3
            /\ \A k \in 1..(Len(tried) - 1) : tried[k].error = "KISError"
            /\ IF last.error = "None"
               THEN /\ TheResult.error = "None"
                    /\ TheResult.status \in {"SIMULATED", "FILLED", "BLOCKED", "QUOTES"}
               ELSE /\ TheResult.error # "None"
                    /\ TheResult.status = "RAISED"
                    /\ last.error # "KISError" => TheResult.error = last.error
            /\ (TheCall.tenacity /\ last.error = "KISError") => Len(tried) = 3

\* an order whose token request raised ValueError on the second attempt:
\* the call ended there, with that exception
C25_Witness ==
    /\ Called("place_order") /\ TheCall.tenacity
    /\ TheResult.attempts = 2
    /\ TheResult.tried[1].error = "KISError"
    /\ TheResult.error = "ValueError"

\* C26: in LIVE mode a failure while obtaining a symbol's live price (the
\* price request, the credential check or the token fetch made for it)
\* gives that symbol a synthetic price: fetch_universe_quotes returns one
\* quote for every symbol and does not raise.
C26_LivePriceFailureFallsBack ==
    (Called("fetch_universe_quotes") /\ ~TheCall.dry_run)
        => /\ TheResult.error = "None"
           /\ DOMAIN TheResult.quotes = DOMAIN Universe
           /\ \A i \in DOMAIN Universe :
                TheResult.quotes[i] = IF TheCall.prices[i] = "price" /\ TheCall.env.credentials
                                      THEN "live" ELSE "synthetic"

\* C27: DRY-RUN place_order returns status SIMULATED whatever the side, the
\* market status and the credentials, without a network call and without
\* raising.
C27_DryRunAlwaysSimulated ==
    (Called("place_order") /\ TheCall.dry_run)
        => /\ TheResult.status = "SIMULATED"
           /\ TheResult.error = "None"
           /\ TheResult.network = <<>>
           /\ TheResult.attempts = 1

\* a simulated order with a side LIVE rejects, the market closed, no credentials
C27_Witness ==
    /\ Called("place_order") /\ TheCall.dry_run
    /\ TheCall.side = "HOLD" /\ ~TheCall.market /\ ~TheCall.env.credentials
    /\ TheResult.status = "SIMULATED"

\* C28: LIVE place_order with the market open, the credentials set and
\* KIS_MOCK_ORDER set returns status FILLED without a token, hashkey or
\* order request.
C28_MockOrderBypassesNetwork ==
    (/\ Called("place_order") /\ ~TheCall.dry_run /\ TheCall.market
     /\ TheCall.env.credentials /\ TheCall.env.KIS_MOCK_ORDER)
        => /\ TheResult.status = "FILLED"
           /\ TheResult.error = "None"
           /\ TheResult.network = <<>>
           /\ TheResult.kis = [token_expire_at |-> TheCall.cached]

\* a mock fill on a client with no token, the token endpoint failing
C28_Witness ==
    /\ Called("place_order") /\ ~TheCall.dry_run /\ TheCall.market
    /\ TheCall.env.credentials /\ TheCall.env.KIS_MOCK_ORDER
    /\ TheCall.cached = <<>> /\ TheAnswers[1].token[1] = "failed"
    /\ TheResult.status = "FILLED"

\* the gates a blocker names, and the gates that fail for a row
BlockedBy(row) == {row.blocker[k].gate : k \in DOMAIN row.blocker}
FailingGates(d, row) ==
    {gate \in {"strategy", "market", "risk", "env"} :
        \/ gate = "strategy" /\ ~row.strategy_pass
        \/ gate = "market" /\ ~d.market.can_place_order
        \/ gate = "risk" /\ ~d.risk_ok
        \/ gate = "env" /\ d.env_check.mode = "LIVE" /\ ~d.env_check.credentials}

\* C29: in every row of the manual diagnosis can_auto_order_now is
\* strategy_pass and market.can_place_order and risk_ok and credentials ok;
\* when it is false the blocker names exactly the failing gates, the market
\* and the risk each with its reason, and when it is true the blocker is the
\* 'none' value.
C29_DiagnosisBlockersMatchGates ==
    returned # <<>> =>
        LET d == returned[1]
        IN  \A i \in DOMAIN d.rows :
                LET row == d.rows[i]
                IN  /\ row.can_auto_order_now <=> FailingGates(d, row) = {}
                    /\ Len(row.blocker) = Cardinality(BlockedBy(row))
                    /\ IF row.can_auto_order_now THEN BlockedBy(row) = {"none"}
                       ELSE BlockedBy(row) = FailingGates(d, row)
                    /\ \A k \in DOMAIN row.blocker :
                         /\ row.blocker[k].gate = "market" => row.blocker[k].reason = d.market.reason
                         /\ row.blocker[k].gate = "risk" => row.blocker[k].reason = d.risk_reason

\* the market closed and a quote that passes the strategy: strategy_pass,
\* not can_auto_order_now, the market and its reason the only blocker
C29_Witness ==
    /\ returned # <<>>
    /\ ~status
    /\ \E i \in DOMAIN returned[1].rows :
         LET row == returned[1].rows[i]
         IN  /\ row.strategy_pass /\ ~row.can_auto_order_now
             /\ row.blocker = <<[gate |-> "market", reason |-> returned[1].market.reason]>>

\* C30: heartbeat(), running beside the trading loop, never changes the
\* runtime, and every dict it returns holds the values enabled, fatal_error,
\* the number of open positions, daily_trades and daily_loss_krw had together
\* at one instant between complete entry, exit or fatal updates, never some
\* from before an update and some from after it.
C30_HeartbeatShowsOneInstant ==
    /\ [](returned # <<>> => returned[1] \in hb.instants)
    /\ [][hb'.at # hb.at => runtime' = runtime]_vars

\* C31: the token refresh of one KISClient is single-flighted: when two
\* callers ask for the access token while no valid token is cached, at most
\* one token request fetches a token, and both callers use the same token.
C31_TokenRefreshIsSingleFlight ==
    /\ Len(issued) <= 1
    /\ \A i, j \in DOMAIN returned :
         ~returned[i].raised /\ ~returned[j].raised => returned[i].token = returned[j].token

\* C32: with max_orders_per_day above 0, daily_trades never exceeds it in any
\* state the engine reaches, the end of a tick that opened several positions
\* included.
C32_DailyTradesWithinCap ==
    MaxOrdersPerDay > 0 => runtime.daily_trades <= MaxOrdersPerDay

\* C33: over ticks, enable/disable calls and fatal transitions daily_trades
\* never decreases and daily_loss_krw never increases; so, the configuration
\* being fixed, once the admission check denies by the order count or by the
\* absolute loss cap it denies, by one of the two, after every later step.
C33_DailyCountersNeverReset ==
    [][/\ runtime'.daily_trades >= runtime.daily_trades
       /\ runtime'.daily_loss_krw <= runtime.daily_loss_krw
       /\ (config' = config /\ (CountDenies \/ LossDenies)) =>
             LET later == risk_check_detail(config', env', runtime', now')
             IN  ~later.ok /\ later.reason.kind \in {"count", "loss_krw"}]_vars

\* an engine whose second tick was denied by the order count and whose third
\* tick, with the counters as they were, has been denied by it again
C33_Witness ==
    /\ pc = "sleeping"
    /\ runtime.enabled
    /\ CountDenies
    /\ now > 2 * SleepSeconds(config)
    /\ Len(io.warnings) = 1
    /\ io.warnings[1].kind = "count"

\* the attempts of the call whose order the broker accepted: the order
\* request was sent, and the broker answered rt_cd = "0" or accepted the
\* order and the answer was lost
AcceptedByBroker ==
    {n \in DOMAIN TheResult.tried :
        /\ \E k \in DOMAIN TheResult.tried[n].network : TheResult.tried[n].network[k] = "order"
        /\ TheAnswers[n].order \in {"accepted", "lost_answer"}}

\* C34: one LIVE place_order call has at most one order accepted by the
\* broker, also when an attempt ends in a transient failure (the request
\* raises after the broker received the order, or a non-success answer) and
\* the call is retried.
C34_AtMostOneOrderAccepted ==
    (Called("place_order") /\ ~TheCall.dry_run) => Cardinality(AcceptedByBroker) <= 1

\* C35: each symbol being quoted once in a cycle and stop_loss_pct and
\* take_profit_pct being above 0, a position opened by the entries of a tick
\* is not closed by the exits of the same tick: it is still held, at the
\* price of its quote, whatever else the tick closed.
C35_EnteredStaysOpenThroughTick ==
    (/\ \A i, j \in DOMAIN quotes : quotes[i].symbol = quotes[j].symbol => i = j
     /\ config.stages.exit.stop_loss_pct > 0
     /\ config.stages.exit.take_profit_pct > 0) =>
        \A i \in Sent(io, "entry") :
            /\ io.sent[i].symbol \in Held
            /\ \A j \in Sent(io, "exit") : io.sent[j].symbol # io.sent[i].symbol
            /\ \A k \in DOMAIN quotes :
                 quotes[k].symbol = io.sent[i].symbol =>
                     runtime.open_positions[io.sent[i].symbol].entry_price = quotes[k].price

\* a finished tick that opened one position and closed another, held before
C35_Witness ==
    /\ pc = "sleeping"
    /\ Sent(io, "entry") # {}
    /\ Sent(io, "exit") # {}
    /\ \A i \in Sent(io, "entry") : io.sent[i].symbol \in Held

\* C36: enable(is_on) changes the enabled flag alone: daily_trades,
\* daily_loss_krw, consecutive_losses, cooldown_until_epoch, the open
\* positions and fatal_error stay as they are.  So after a failure and
\* enable(True) heartbeat() still shows the recorded fatal_error, and the
\* admission check and the cooldown answer as before the call.
C36_EnableChangesOnlyEnabled ==
    [][(pc = "sleeping" /\ pc' = "sleeping" /\ runtime'.enabled # runtime.enabled) =>
            /\ runtime' = [runtime EXCEPT !.enabled = runtime'.enabled]
            /\ UNCHANGED <<config, env, now, trades, io>>
            /\ HeartbeatDict(runtime').fatal_error = runtime.fatal_error
            /\ risk_check_detail(config', env', runtime', now') =
                   risk_check_detail(config, env, runtime, now)
            /\ (runtime'.enabled /\ CooldownActive) =>
                   tick_gate(runtime', config', env', now') = "cooldown"]_vars

\* an engine that started a cooldown and failed in the same tick, was enabled
\* again with the failure still recorded, and whose next tick the cooldown
\* skipped
C36_Witness ==
    /\ pc = "sleeping"
    /\ runtime.enabled
    /\ runtime.fatal_error # "None"
    /\ HeartbeatDict(runtime).fatal_error = runtime.fatal_error
    /\ CooldownActive
    /\ runtime.daily_trades > 0
    /\ io = EmptyLog

====
